---- MODULE Spec2Model ----
(***************************************************************************)
(* Model of shouni/action-perfect-get-on-go: the text segmenter, the       *)
(* parallel fetch / classify / retry stage, the Map/Reduce executor and    *)
(* the pipeline that sequences them.                                       *)
(*                                                                         *)
(* A Go string is a sequence of bytes (integers 0..255); a []rune is a     *)
(* sequence of code points (integers).                                     *)
(***************************************************************************)
EXTENDS Integers, Sequences, FiniteSets, TLC

VARIABLES
    \* one call of segmentText (specification SegSpec)
    segText, segMaxChars, segResult, segPc,
    \* configuration handed to the constructors
    optMaxParallel, optMapConcurrency, optURLFile,
    \* the run: position of Pipeline.Execute, the shared context, its result
    pc, ctxDone, runErr,
    \* fetch stage
    urls, maxConcurrency, semaphore, wg, fw, resultsChan, results,
    successfulResults, failedURLs, initialSuccessfulCount,
    retryIdx, retryInFlight, retriedSuccessfulResults, retryFailedLog,
    scrapeCalls, lastExtract,
    \* consolidation stage
    allSegments, concurrency, sem, mapWg, mw, mapResultsChan, tickReady,
    mapRet, mapCalls, reduceCalls, ticksFired,
    combinedText, finalResponseText, cleanedText, written, fetchLog

segVars == <<segText, segMaxChars, segResult, segPc>>

optVars == <<optMaxParallel, optMapConcurrency, optURLFile>>

scrapeVars == <<maxConcurrency, semaphore, wg, fw, resultsChan>>

fetchVars == <<results, successfulResults, failedURLs, initialSuccessfulCount,
               retryIdx, retryInFlight, retriedSuccessfulResults,
               retryFailedLog, scrapeCalls, lastExtract>>

mapVars == <<allSegments, concurrency, sem, mapWg, mw, mapResultsChan,
             tickReady, mapRet, mapCalls, reduceCalls, ticksFired>>

outVars == <<combinedText, finalResponseText, cleanedText, written,
            fetchLog>>

vars == <<segVars, optVars, pc, ctxDone, runErr, urls, scrapeVars, fetchVars,
          mapVars, outVars>>

\* ------------------------------------------------------------------------
\* Bounds of the segmenter specification
\* ------------------------------------------------------------------------
MaxTextLen == 5

MaxMaxChars == 4

\* Code points the input texts are built from: 'a', '\n' and U+3042 (a
\* three-byte character in UTF-8).
RuneAlphabet == {97, 10, 12354}

\* ------------------------------------------------------------------------
\* Helpers on sequences
\* ------------------------------------------------------------------------
SeqsUpTo(S, n) == UNION {[1..k -> S] : k \in 0..n}

SetMax(S) == CHOOSE x \in S : \A y \in S : y <= x

RECURSIVE ConcatAll(_)
ConcatAll(ss) == IF ss = <<>> THEN <<>> ELSE Head(ss) \o ConcatAll(Tail(ss))

\* ------------------------------------------------------------------------
\* Go string <-> []rune conversions (UTF-8)
\* ------------------------------------------------------------------------
RuneError == 65533

\* string(rune): the UTF-8 encoding of one code point (up to three bytes).
EncodeRune(r) ==
    IF r < 128 THEN <<r>>
    ELSE IF r < 2048 THEN <<192 + (r \div 64), 128 + (r % 64)>>
    ELSE <<224 + (r \div 4096), 128 + ((r \div 64) % 64), 128 + (r % 64)>>

\* string([]rune)
RECURSIVE EncodeRunes(_)
EncodeRunes(rs) ==
    IF rs = <<>> THEN <<>> ELSE EncodeRune(Head(rs)) \o EncodeRunes(Tail(rs))

IsCont(b) == b >= 128 /\ b <= 191

\* []rune(string): an invalid byte decodes to U+FFFD and consumes one byte.
RECURSIVE DecodeString(_)
DecodeString(bs) ==
    IF bs = <<>> THEN <<>>
    ELSE LET b1 == bs[1] IN
         IF b1 < 128 THEN <<b1>> \o DecodeString(Tail(bs))
         ELSE IF b1 >= 194 /\ b1 <= 223 /\ Len(bs) >= 2 /\ IsCont(bs[2])
              THEN <<(b1 - 192) * 64 + (bs[2] - 128)>>
                   \o DecodeString(SubSeq(bs, 3, Len(bs)))
         ELSE IF b1 >= 225 /\ b1 <= 236 /\ Len(bs) >= 3
                 /\ IsCont(bs[2]) /\ IsCont(bs[3])
              THEN <<(b1 - 224) * 4096 + (bs[2] - 128) * 64 + (bs[3] - 128)>>
                   \o DecodeString(SubSeq(bs, 4, Len(bs)))
         ELSE <<RuneError>> \o DecodeString(Tail(bs))

\* utf8.RuneCountInString
RuneCount(bs) == Len(DecodeString(bs))

\* strings.LastIndex: the 0-based byte offset of the last occurrence of sep
\* in s, or -1.
LastIndex(s, sep) ==
    LET hits == {i \in 0..(Len(s) - Len(sep)) :
                    SubSeq(s, i + 1, i + Len(sep)) = sep}
    IN IF hits = {} THEN -1 ELSE SetMax(hits)

\* ------------------------------------------------------------------------
\* segmentText
\* ------------------------------------------------------------------------
DefaultSeparator == <<10, 10>>

\* The split index one iteration of the loop computes for a remainder that
\* is longer than maxChars: lastSepIdx is a byte offset into the candidate
\* string and is used as an index into the rune slice.
SplitIndex(current, maxChars) ==
    LET segmentCandidate == EncodeRunes(SubSeq(current, 1, maxChars))
        lastSepIdx == LastIndex(segmentCandidate, DefaultSeparator)
    IN IF lastSepIdx # -1 /\ lastSepIdx > maxChars \div 2
       THEN lastSepIdx + Len(DefaultSeparator)
       ELSE maxChars

\* The loop of segmentText.  current[:splitIndex] and current[splitIndex:]
\* panic (slice bounds out of range) when splitIndex exceeds the remainder.
RECURSIVE SegLoop(_, _, _)
SegLoop(current, segments, maxChars) ==
    IF Len(current) = 0
    THEN [panicked |-> FALSE, segments |-> segments]
    ELSE IF Len(current) <= maxChars
    THEN [panicked |-> FALSE,
          segments |-> Append(segments, EncodeRunes(current))]
    ELSE LET splitIndex == SplitIndex(current, maxChars) IN
         IF splitIndex > Len(current)
         THEN [panicked |-> TRUE, segments |-> segments]
         ELSE SegLoop(SubSeq(current, splitIndex + 1, Len(current)),
                      Append(segments,
                             EncodeRunes(SubSeq(current, 1, splitIndex))),
                      maxChars)

\* A variant whose loop body runs before its guard is tested, so that the
\* empty text is emitted as one empty segment.
segmentTextEmitsEmpty(text, maxChars) ==
    IF text = <<>>
    THEN [panicked |-> FALSE, segments |-> <<text>>]
    ELSE SegLoop(DecodeString(text), <<>>, maxChars)

segmentText(text, maxChars) == SegLoop(DecodeString(text), <<>>, maxChars)

\* ------------------------------------------------------------------------
\* Errors
\* ------------------------------------------------------------------------
\* An error value is a record: the phase Pipeline.Execute wrapped it with
\* ("" when it has not been wrapped), and the kind of the root cause.
\* kind "cancel" is an error that wraps ctx.Err().
NoError == [phase |-> "", kind |-> "none"]

\* Nothing has been handed to an output sink.
NotWritten == [sink |-> "none", content |-> <<>>]

\* The URL file is not looked at byte by byte: the specification draws the
\* list it parses to.
NoURLFile == [path |-> "", content |-> <<>>]

\* No call of the extractor has returned.
NoExtract == [content |-> <<>>, hasBodyFound |-> FALSE, err |-> FALSE,
              returned |-> FALSE]

\* Fetch has not logged its final counts.
NoFetchLog ==
    [logged |-> FALSE, successful |-> 0, total |-> 0,
     initial_successful |-> 0, retry_successful |-> 0]

\* ExecuteMap has not returned.
NoMapReturn == [done |-> FALSE, summaries |-> <<>>, err |-> "none"]

PhaseURLs == "URLs"

PhaseContent == "Content"

PhaseCleanUp == "CleanUp"

\* ------------------------------------------------------------------------
\* Specification of the segmenter: one call on an arbitrary text
\* ------------------------------------------------------------------------
NoResult == [panicked |-> FALSE, segments |-> <<>>]

\* The pipeline is not part of the segmenter specification: it stays idle.
PipelineIdle ==
    /\ optMaxParallel = 1 /\ optMapConcurrency = 1
    /\ optURLFile = NoURLFile
    /\ pc = "idle" /\ ctxDone = FALSE /\ runErr = NoError
    /\ urls = <<>> /\ maxConcurrency = 1 /\ semaphore = 0 /\ wg = 0
    /\ fw = <<>> /\ resultsChan = <<>> /\ results = <<>>
    /\ successfulResults = <<>> /\ failedURLs = <<>>
    /\ initialSuccessfulCount = 0 /\ retryIdx = 0 /\ retryInFlight = FALSE
    /\ retriedSuccessfulResults = <<>> /\ retryFailedLog = <<>>
    /\ scrapeCalls = <<>> /\ lastExtract = NoExtract
    /\ allSegments = <<>> /\ concurrency = 1 /\ sem = 0 /\ mapWg = 0
    /\ mw = <<>> /\ mapResultsChan = <<>> /\ tickReady = FALSE
    /\ mapRet = NoMapReturn /\ mapCalls = <<>> /\ reduceCalls = 0
    /\ ticksFired = 0
    /\ combinedText = <<>> /\ finalResponseText = <<>>
    /\ cleanedText = <<>> /\ written = NotWritten
    /\ fetchLog = NoFetchLog

SegInit ==
    /\ PipelineIdle
    /\ segText \in {EncodeRunes(rs) : rs \in SeqsUpTo(RuneAlphabet, MaxTextLen)}
    /\ segMaxChars \in 1..MaxMaxChars
    /\ segResult = NoResult
    /\ segPc = "call"

SegCall ==
    /\ segPc = "call"
    /\ segResult' = segmentText(segText, segMaxChars)
    /\ segPc' = IF segResult'.panicked THEN "panicked" ELSE "returned"
    /\ UNCHANGED <<segText, segMaxChars>>
    /\ UNCHANGED <<optVars, pc, ctxDone, runErr, urls, scrapeVars, fetchVars,
                   mapVars, outVars>>

SegNext == SegCall

SegSpec == SegInit /\ [][SegNext]_vars

\* ------------------------------------------------------------------------
\* Bounds and inputs of the pipeline specification
\* ------------------------------------------------------------------------
MaxURLs == 2

MinParallel == -1

MaxParallel == 2

URLSet == {"u1", "u2"}

\* The page behind each URL: u1 has a one-letter body, the body of u2 is
\* whitespace only.
BlankText == <<32>>

PageOf(u) == IF u = "u1" THEN <<97>> ELSE BlankText

\* The values the latest call of the extractor returned.
Returned(o) ==
    [content |-> o.content, hasBodyFound |-> o.hasBodyFound, err |-> o.err,
     returned |-> TRUE]

\* What one call of Extractor.FetchAndExtractText(url) can return:
\* (content, hasBodyFound, err).
FetchOutcomes(u) ==
    {[content |-> c, hasBodyFound |-> b, err |-> FALSE] :
        c \in {PageOf(u), <<>>}, b \in BOOLEAN}
    \cup {[content |-> <<>>, hasBodyFound |-> FALSE, err |-> TRUE]}

\* ------------------------------------------------------------------------
\* Construction (BuildPipeline)
\* ------------------------------------------------------------------------
DefaultMaxConcurrency == 10

DefaultMaxMapConcurrency == 2

\* The documentation limits the parallel extraction to 15 fetches at a time.
\* The URL lists of the model are a few entries long and the limit is scaled
\* down with them: a configured parallelism of 2 stands for one above 15.
ScaledParallelCap == 1

\* NewParallelScraper: the maxConcurrency field of the scraper.
NewParallelScraper(supplied) ==
    IF supplied <= 0 THEN DefaultMaxConcurrency ELSE supplied

\* A constructor that keeps whatever value it is given.
NewLLMConcurrentExecutorUnchecked(clientErr, supplied) ==
    [err |-> clientErr, concurrency |-> supplied]

\* NewLLMConcurrentExecutor: fails only when the client cannot be created;
\* the concurrency field of the executor.
NewLLMConcurrentExecutor(clientErr, supplied) ==
    IF clientErr
    THEN [err |-> TRUE, concurrency |-> 0]
    ELSE [err |-> FALSE, concurrency |-> IF supplied < 1 THEN 1 ELSE supplied]

SegmenterIdle ==
    /\ segText = <<>> /\ segMaxChars = 1
    /\ segResult = NoResult /\ segPc = "unused"

\* Locals of ScrapeInParallel, Fetch and processFailedURLs before the calls.
FetchLocalsFresh ==
    /\ semaphore = 0 /\ wg = 0 /\ fw = <<>> /\ resultsChan = <<>>
    /\ results = <<>> /\ failedURLs = <<>> /\ initialSuccessfulCount = 0
    /\ retryIdx = 0 /\ retryInFlight = FALSE
    /\ retriedSuccessfulResults = <<>> /\ retryFailedLog = <<>>
    /\ scrapeCalls = <<>> /\ lastExtract = NoExtract

\* Locals of CleanAndStructureText, ExecuteMap and Generate before the calls.
CleanLocalsFresh ==
    /\ allSegments = <<>> /\ sem = 0 /\ mapWg = 0 /\ mw = <<>>
    /\ mapResultsChan = <<>> /\ tickReady = FALSE
    /\ mapRet = NoMapReturn /\ mapCalls = <<>> /\ reduceCalls = 0
    /\ ticksFired = 0
    /\ combinedText = <<>> /\ finalResponseText = <<>>
    /\ cleanedText = <<>> /\ written = NotWritten
    /\ fetchLog = NoFetchLog

\* The state in which Execute is called: BuildPipeline hands
\* opts.MaxScraperParallel to NewParallelScraper and DefaultMaxMapConcurrency
\* to NewLLMConcurrentExecutor.
Init ==
    /\ SegmenterIdle
    /\ optMaxParallel \in MinParallel..MaxParallel
    /\ optMapConcurrency = DefaultMaxMapConcurrency
    /\ optURLFile = NoURLFile
    /\ maxConcurrency = NewParallelScraper(optMaxParallel)
    /\ concurrency = NewLLMConcurrentExecutor(FALSE, optMapConcurrency).concurrency
    /\ pc = "urlgen" /\ ctxDone = FALSE /\ runErr = NoError
    /\ urls = <<>> /\ successfulResults = <<>>
    /\ FetchLocalsFresh
    /\ CleanLocalsFresh

\* ------------------------------------------------------------------------
\* The shared context
\* ------------------------------------------------------------------------
Running == pc \notin {"idle", "done", "failed", "panicked"}

\* The deadline passes or the caller cancels.
Cancel ==
    /\ Running
    /\ ~ctxDone
    /\ ctxDone' = TRUE
    /\ UNCHANGED <<segVars, optVars, pc, runErr, urls, scrapeVars, fetchVars,
                   mapVars, outVars>>

\* ------------------------------------------------------------------------
\* Pipeline.Execute, stage 1: URL generation
\* ------------------------------------------------------------------------
\* An Execute that wraps every error with the name of its last phase.
ExecuteFailsLastPhase(phase, kind) ==
    /\ pc' = "failed"
    /\ runErr' = [phase |-> PhaseCleanUp, kind |-> kind]

\* Execute returns err wrapped with the phase name.
ExecuteFails(phase, kind) ==
    /\ pc' = "failed"
    /\ runErr' = [phase |-> phase, kind |-> kind]

URLGenerate ==
    /\ pc = "urlgen"
    /\ \E list \in SeqsUpTo(URLSet, MaxURLs), openErr \in BOOLEAN :
          IF openErr
          THEN /\ ExecuteFails(PhaseURLs, "open")
               /\ UNCHANGED <<urls, fw, scrapeCalls>>
          ELSE IF Len(list) = 0
          THEN /\ ExecuteFails(PhaseURLs, "nourls")
               /\ UNCHANGED <<urls, fw, scrapeCalls>>
          ELSE /\ urls' = list
               /\ fw' = [i \in 1..Len(list) |-> "idle"]
               /\ scrapeCalls' = [i \in 1..Len(list) |-> 0]
               /\ pc' = "scrape"
               /\ UNCHANGED runErr
    /\ UNCHANGED <<segVars, optVars, ctxDone, maxConcurrency, semaphore, wg,
                   resultsChan, results, successfulResults, failedURLs,
                   initialSuccessfulCount, retryIdx, retryInFlight,
                   retriedSuccessfulResults, retryFailedLog, lastExtract,
                   mapVars, outVars>>

\* ------------------------------------------------------------------------
\* ParallelScraper.ScrapeInParallel
\* ------------------------------------------------------------------------
\* A dispatch loop whose send on the semaphore never blocks.
ScrapeDispatchUnbounded ==
    /\ pc = "scrape"
    /\ \E i \in DOMAIN fw :
          /\ fw[i] = "idle"
          /\ \A j \in 1..(i - 1) : fw[j] # "idle"
          /\ wg' = wg + 1
          /\ semaphore' = semaphore + 1
          /\ fw' = [fw EXCEPT ![i] = "spawned"]
    /\ UNCHANGED <<segVars, optVars, pc, ctxDone, runErr, urls,
                   maxConcurrency, resultsChan, fetchVars, mapVars, outVars>>

\* The dispatch loop: wg.Add(1), acquire a slot (blocks while the semaphore
\* is full), start the goroutine of the next URL.
ScrapeDispatch ==
    /\ pc = "scrape"
    /\ \E i \in DOMAIN fw :
          /\ fw[i] = "idle"
          /\ \A j \in 1..(i - 1) : fw[j] # "idle"
          /\ semaphore < maxConcurrency
          /\ wg' = wg + 1
          /\ semaphore' = semaphore + 1
          /\ fw' = [fw EXCEPT ![i] = "spawned"]
    /\ UNCHANGED <<segVars, optVars, pc, ctxDone, runErr, urls,
                   maxConcurrency, resultsChan, fetchVars, mapVars, outVars>>

\* A goroutine that calls the extractor without polling ctx.Done().
ScrapeWorkerStartUnpolled(i) ==
    /\ fw[i] = "spawned"
    /\ fw' = [fw EXCEPT ![i] = "calling"]
    /\ scrapeCalls' = [scrapeCalls EXCEPT ![i] = @ + 1]
    /\ UNCHANGED <<segVars, optVars, pc, ctxDone, runErr, urls,
                   maxConcurrency, semaphore, wg, resultsChan, results,
                   successfulResults, failedURLs, initialSuccessfulCount,
                   retryIdx, retryInFlight, retriedSuccessfulResults,
                   retryFailedLog, lastExtract, mapVars, outVars>>

\* The goroutine polls ctx.Done() once: when the context is done it sends a
\* result carrying ctx.Err() and returns; otherwise it calls
\* FetchAndExtractText (scrapeCalls counts the calls per list entry).
ScrapeWorkerStart(i) ==
    /\ fw[i] = "spawned"
    /\ IF ctxDone
       THEN /\ resultsChan' = Append(resultsChan,
                 [URL |-> urls[i], Content |-> <<>>, Error |-> "cancel"])
            /\ fw' = [fw EXCEPT ![i] = "reported"]
            /\ UNCHANGED scrapeCalls
       ELSE /\ fw' = [fw EXCEPT ![i] = "calling"]
            /\ scrapeCalls' = [scrapeCalls EXCEPT ![i] = @ + 1]
            /\ UNCHANGED resultsChan
    /\ UNCHANGED <<segVars, optVars, pc, ctxDone, runErr, urls,
                   maxConcurrency, semaphore, wg, results, successfulResults,
                   failedURLs, initialSuccessfulCount, retryIdx,
                   retryInFlight, retriedSuccessfulResults, retryFailedLog,
                   lastExtract, mapVars, outVars>>

\* An error that is decided by the content alone.
ExtractErrByContent(o) ==
    IF o.err THEN "extract"
    ELSE IF o.content = <<>> THEN "nobody"
    ELSE "none"

\* The error a fetch attempt is given from what the extractor returned.
ExtractErr(o) ==
    IF o.err THEN "extract"
    ELSE IF o.content = <<>> \/ ~o.hasBodyFound THEN "nobody"
    ELSE "none"

\* A goroutine that reports a result only when the extraction succeeded.
ScrapeWorkerReturnSilentOnFailure(i) ==
    /\ fw[i] = "calling"
    /\ \E o \in FetchOutcomes(urls[i]) :
          /\ lastExtract' = Returned(o)
          /\ resultsChan' =
                IF ExtractErr(o) # "none" THEN resultsChan
                ELSE Append(resultsChan,
                            [URL |-> urls[i], Content |-> o.content,
                             Error |-> "none"])
    /\ fw' = [fw EXCEPT ![i] = "reported"]
    /\ UNCHANGED <<segVars, optVars, pc, ctxDone, runErr, urls,
                   maxConcurrency, semaphore, wg, results, successfulResults,
                   failedURLs, initialSuccessfulCount, retryIdx,
                   retryInFlight, retriedSuccessfulResults, retryFailedLog,
                   scrapeCalls, mapVars, outVars>>

\* FetchAndExtractText returns and the goroutine sends its result.
ScrapeWorkerReturn(i) ==
    /\ fw[i] = "calling"
    /\ \E o \in FetchOutcomes(urls[i]) :
          /\ lastExtract' = Returned(o)
          /\ resultsChan' = Append(resultsChan,
                [URL |-> urls[i], Content |-> o.content,
                 Error |-> ExtractErr(o)])
    /\ fw' = [fw EXCEPT ![i] = "reported"]
    /\ UNCHANGED <<segVars, optVars, pc, ctxDone, runErr, urls,
                   maxConcurrency, semaphore, wg, results, successfulResults,
                   failedURLs, initialSuccessfulCount, retryIdx,
                   retryInFlight, retriedSuccessfulResults, retryFailedLog,
                   scrapeCalls, mapVars, outVars>>

\* Deferred calls run last-registered first: the slot is released, then
\* wg.Done().
ScrapeWorkerRelease(i) ==
    /\ fw[i] = "reported"
    /\ semaphore' = semaphore - 1
    /\ fw' = [fw EXCEPT ![i] = "released"]
    /\ UNCHANGED <<segVars, optVars, pc, ctxDone, runErr, urls,
                   maxConcurrency, wg, resultsChan, fetchVars, mapVars,
                   outVars>>

ScrapeWorkerDone(i) ==
    /\ fw[i] = "released"
    /\ wg' = wg - 1
    /\ fw' = [fw EXCEPT ![i] = "exited"]
    /\ UNCHANGED <<segVars, optVars, pc, ctxDone, runErr, urls,
                   maxConcurrency, semaphore, resultsChan, fetchVars, mapVars,
                   outVars>>

\* A collector that drains the channel as soon as the loop has dispatched
\* every goroutine, without wg.Wait().
ScrapeCollectNoWait ==
    /\ pc = "scrape"
    /\ \A i \in DOMAIN fw : fw[i] # "idle"
    /\ results' = resultsChan
    /\ resultsChan' = <<>>
    /\ pc' = "delay1"
    /\ UNCHANGED <<segVars, optVars, ctxDone, runErr, urls, maxConcurrency,
                   semaphore, wg, fw, successfulResults, failedURLs,
                   initialSuccessfulCount, retryIdx, retryInFlight,
                   retriedSuccessfulResults, retryFailedLog, scrapeCalls, lastExtract,
                   mapVars, outVars>>

\* After the loop: wg.Wait(), close(resultsChan), drain it into the result
\* list.  ScrapeInParallel returns to Fetch, which starts its first sleep.
ScrapeCollect ==
    /\ pc = "scrape"
    /\ \A i \in DOMAIN fw : fw[i] # "idle"
    /\ wg = 0
    /\ results' = resultsChan
    /\ resultsChan' = <<>>
    /\ pc' = "delay1"
    /\ UNCHANGED <<segVars, optVars, ctxDone, runErr, urls, maxConcurrency,
                   semaphore, wg, fw, successfulResults, failedURLs,
                   initialSuccessfulCount, retryIdx, retryInFlight,
                   retriedSuccessfulResults, retryFailedLog, scrapeCalls,
                   lastExtract,
                   mapVars, outVars>>

\* ------------------------------------------------------------------------
\* WebContentFetcherImpl.Fetch
\* ------------------------------------------------------------------------
\* A classifier that infers success from the absence of an error alone.
FailedByErrorOnly(res) == res.Error # "none"

\* The test classifyResults applies to one result.
Failed(res) == res.Error # "none" \/ res.Content = <<>>

RECURSIVE SuccessfulOf(_)
SuccessfulOf(rs) ==
    IF rs = <<>> THEN <<>>
    ELSE IF Failed(Head(rs)) THEN SuccessfulOf(Tail(rs))
    ELSE <<Head(rs)>> \o SuccessfulOf(Tail(rs))

RECURSIVE FailedURLsOf(_)
FailedURLsOf(rs) ==
    IF rs = <<>> THEN <<>>
    ELSE IF Failed(Head(rs)) THEN <<Head(rs).URL>> \o FailedURLsOf(Tail(rs))
    ELSE FailedURLsOf(Tail(rs))

classifyResults(rs) ==
    [successfulResults |-> SuccessfulOf(rs), failedURLs |-> FailedURLsOf(rs)]

\* A log whose retry count is the number of sources that were not initial
\* successes.
FinalCountsOfAttempts(successful, initialCount) ==
    [logged |-> TRUE, successful |-> Len(successful), total |-> Len(urls),
     initial_successful |-> initialCount,
     retry_successful |-> Len(urls) - initialCount]

\* The counts Fetch logs before it returns its results.
FinalCounts(successful, initialCount) ==
    [logged |-> TRUE, successful |-> Len(successful), total |-> Len(urls),
     initial_successful |-> initialCount,
     retry_successful |-> Len(successful) - initialCount]

\* A final check that lets an empty batch through.
FetchReturnsUnchecked(successful, initialCount) ==
    /\ pc' = "generate"
    /\ successfulResults' = successful
    /\ fetchLog' = FinalCounts(successful, initialCount)
    /\ UNCHANGED runErr

\* The end of Fetch (step 5): with no successful result the stage fails and
\* Execute returns the error wrapped with the content phase; otherwise
\* Execute hands the successful results to OutputGen.Generate.
FetchReturns(successful, initialCount) ==
    /\ successfulResults' = successful
    /\ IF Len(successful) = 0
       THEN /\ ExecuteFails(PhaseContent, "nocontent")
            /\ UNCHANGED fetchLog
       ELSE /\ pc' = "generate"
            /\ fetchLog' = FinalCounts(successful, initialCount)
            /\ UNCHANGED runErr

\* The locals of Fetch and processFailedURLs go out of scope when Fetch
\* returns its results; they are kept for inspection when it fails.
FetchLocalsDropped(keep) ==
    IF keep
    THEN UNCHANGED <<results, failedURLs, initialSuccessfulCount, retryIdx,
                     retryInFlight, retriedSuccessfulResults, retryFailedLog,
                     scrapeCalls, lastExtract>>
    ELSE /\ results' = <<>> /\ failedURLs' = <<>>
         /\ initialSuccessfulCount' = 0 /\ retryIdx' = 0
         /\ retryInFlight' = FALSE /\ retriedSuccessfulResults' = <<>>
         /\ retryFailedLog' = <<>> /\ scrapeCalls' = <<>>
         /\ lastExtract' = NoExtract

\* time.Sleep(InitialScrapeDelay) ends; the results are classified.  With
\* failed URLs processFailedURLs is entered and starts its own sleep.
FetchInitialDelay ==
    /\ pc = "delay1"
    /\ LET c == classifyResults(results) IN
          IF Len(c.failedURLs) > 0
          THEN /\ successfulResults' = c.successfulResults
               /\ failedURLs' = c.failedURLs
               /\ initialSuccessfulCount' = Len(c.successfulResults)
               /\ pc' = "delay2"
               /\ UNCHANGED <<runErr, fetchLog, results, retryIdx, retryInFlight,
                              retriedSuccessfulResults, retryFailedLog,
                              scrapeCalls, lastExtract>>
          ELSE /\ FetchReturns(c.successfulResults, Len(c.successfulResults))
               /\ FetchLocalsDropped(Len(c.successfulResults) = 0)
    /\ UNCHANGED <<segVars, optVars, ctxDone, urls, scrapeVars, mapVars,
                   combinedText, finalResponseText, cleanedText, written>>

\* processFailedURLs: time.Sleep(retryDelay) ends.
FetchRetryDelay ==
    /\ pc = "delay2"
    /\ pc' = "retry"
    /\ UNCHANGED <<segVars, optVars, ctxDone, runErr, urls, scrapeVars,
                   fetchVars, mapVars, outVars>>

\* A loop that starts the next retry without waiting for the previous one.
RetryCallOverlapping ==
    /\ pc = "retry"
    /\ retryIdx < Len(failedURLs)
    /\ retryIdx' = retryIdx + 1
    /\ retryInFlight' = TRUE
    /\ UNCHANGED <<segVars, optVars, pc, ctxDone, runErr, urls, scrapeVars,
                   results, successfulResults, failedURLs,
                   initialSuccessfulCount, retriedSuccessfulResults,
                   retryFailedLog, scrapeCalls, lastExtract, mapVars, outVars>>

\* The retry loop calls the extractor for the next failed URL.
RetryCall ==
    /\ pc = "retry"
    /\ ~retryInFlight
    /\ retryIdx < Len(failedURLs)
    /\ retryIdx' = retryIdx + 1
    /\ retryInFlight' = TRUE
    /\ UNCHANGED <<segVars, optVars, pc, ctxDone, runErr, urls, scrapeVars,
                   results, successfulResults, failedURLs,
                   initialSuccessfulCount, retriedSuccessfulResults,
                   retryFailedLog, scrapeCalls, lastExtract, mapVars, outVars>>

\* A retry loop that keeps whatever the extractor returned.
RetryReturnUnchecked ==
    /\ pc = "retry"
    /\ retryInFlight
    /\ retryInFlight' = FALSE
    /\ \E o \in FetchOutcomes(failedURLs[retryIdx]) :
          /\ lastExtract' = Returned(o)
          /\ retriedSuccessfulResults' =
                Append(retriedSuccessfulResults,
                       [URL |-> failedURLs[retryIdx],
                        Content |-> o.content, Error |-> ExtractErr(o)])
          /\ UNCHANGED retryFailedLog
    /\ UNCHANGED <<segVars, optVars, pc, ctxDone, runErr, urls, scrapeVars,
                   results, successfulResults, failedURLs,
                   initialSuccessfulCount, retryIdx, scrapeCalls, mapVars,
                   outVars>>

\* The extractor returns: the URL is appended to the retried successes, or
\* its failure is logged.
RetryReturn ==
    /\ pc = "retry"
    /\ retryInFlight
    /\ retryInFlight' = FALSE
    /\ \E o \in FetchOutcomes(failedURLs[retryIdx]) :
          /\ lastExtract' = Returned(o)
          /\ IF ExtractErr(o) # "none"
             THEN /\ retryFailedLog' =
                        Append(retryFailedLog, failedURLs[retryIdx])
                  /\ UNCHANGED retriedSuccessfulResults
             ELSE /\ retriedSuccessfulResults' =
                        Append(retriedSuccessfulResults,
                               [URL |-> failedURLs[retryIdx],
                                Content |-> o.content, Error |-> "none"])
                  /\ UNCHANGED retryFailedLog
    /\ UNCHANGED <<segVars, optVars, pc, ctxDone, runErr, urls, scrapeVars,
                   results, successfulResults, failedURLs,
                   initialSuccessfulCount, retryIdx, scrapeCalls, mapVars,
                   outVars>>

\* The retry loop is over: processFailedURLs returns, Fetch appends the
\* retried successes and makes its final check.
RetryFinish ==
    /\ pc = "retry"
    /\ ~retryInFlight
    /\ retryIdx = Len(failedURLs)
    /\ FetchReturns(successfulResults \o retriedSuccessfulResults,
                    initialSuccessfulCount)
    /\ FetchLocalsDropped(Len(successfulResults \o retriedSuccessfulResults) = 0)
    /\ UNCHANGED <<segVars, optVars, ctxDone, urls, scrapeVars, mapVars,
                   combinedText, finalResponseText, cleanedText, written>>

\* ------------------------------------------------------------------------
\* Cleaner.CleanAndStructureText and LLMConcurrentExecutor.ExecuteMap
\* ------------------------------------------------------------------------
\* The segment size the pipeline specifications cut with.  The program cuts
\* at MaxSegmentChars = 400000 code points; the page texts of the model are
\* a few code points long and the size is scaled down with them.
ScaledMaxSegmentChars == 3

\* Segments of one URLResult collected last cut first.
SegmentsOfResultLastFirst(res) ==
    LET r == segmentText(res.Content, ScaledMaxSegmentChars)
        n == Len(r.segments)
    IN [panicked |-> r.panicked,
        segments |-> [i \in 1..n |->
                         [Text |-> r.segments[n + 1 - i], URL |-> res.URL]]]

\* Segments of one URLResult, each tagged with the URL it was cut from.
SegmentsOfResult(res) ==
    LET r == segmentText(res.Content, ScaledMaxSegmentChars) IN
    [panicked |-> r.panicked,
     segments |-> [i \in 1..Len(r.segments) |->
                      [Text |-> r.segments[i], URL |-> res.URL]]]

\* The loop of CleanAndStructureText over the results.
RECURSIVE SegmentsOfResults(_)
SegmentsOfResults(rs) ==
    IF rs = <<>> THEN [panicked |-> FALSE, segments |-> <<>>]
    ELSE LET h == SegmentsOfResult(Head(rs))
             t == SegmentsOfResults(Tail(rs))
         IN [panicked |-> h.panicked \/ t.panicked,
             segments |-> h.segments \o t.segments]

\* Generate calls CleanAndStructureText, which segments every result and
\* enters ExecuteMap (channels and ticker are created).  A panic of
\* segmentText is not recovered anywhere: the process dies.
CleanSegment ==
    /\ pc = "generate"
    /\ LET r == SegmentsOfResults(successfulResults) IN
          IF r.panicked
          THEN /\ pc' = "panicked"
               /\ UNCHANGED <<allSegments, mw, mapCalls>>
          ELSE /\ pc' = "map"
               /\ allSegments' = r.segments
               /\ mw' = [i \in 1..Len(r.segments) |-> "idle"]
               /\ mapCalls' = [i \in 1..Len(r.segments) |-> 0]
    /\ UNCHANGED <<segVars, optVars, ctxDone, runErr, urls, scrapeVars,
                   fetchVars, concurrency, sem, mapWg, mapResultsChan,
                   tickReady, mapRet, reduceCalls, outVars,
                   ticksFired>>

\* The ticker of ExecuteMap fires; its channel buffers one tick (a tick
\* that finds the buffer full is dropped and not counted).
Tick ==
    /\ pc = "map"
    /\ ~tickReady
    /\ tickReady' = TRUE
    /\ ticksFired' = ticksFired + 1
    /\ UNCHANGED <<segVars, optVars, pc, ctxDone, runErr, urls, scrapeVars,
                   fetchVars, allSegments, concurrency, sem, mapWg, mw,
                   mapResultsChan, mapRet, mapCalls, reduceCalls, outVars>>

\* A dispatch loop whose send on the semaphore never blocks.
MapDispatchUnbounded ==
    /\ pc = "map"
    /\ \E i \in DOMAIN mw :
          /\ mw[i] = "idle"
          /\ \A j \in 1..(i - 1) : mw[j] # "idle"
          /\ sem' = sem + 1
          /\ mapWg' = mapWg + 1
          /\ mw' = [mw EXCEPT ![i] = "waiting"]
    /\ UNCHANGED <<segVars, optVars, pc, ctxDone, runErr, urls, scrapeVars,
                   fetchVars, allSegments, concurrency, mapResultsChan,
                   tickReady, mapRet, mapCalls, reduceCalls, outVars,
                   ticksFired>>

\* The dispatch loop: acquire a slot (blocks while the semaphore is full),
\* wg.Add(1), start the goroutine of the next segment.
MapDispatch ==
    /\ pc = "map"
    /\ \E i \in DOMAIN mw :
          /\ mw[i] = "idle"
          /\ \A j \in 1..(i - 1) : mw[j] # "idle"
          /\ sem < concurrency
          /\ sem' = sem + 1
          /\ mapWg' = mapWg + 1
          /\ mw' = [mw EXCEPT ![i] = "waiting"]
    /\ UNCHANGED <<segVars, optVars, pc, ctxDone, runErr, urls, scrapeVars,
                   fetchVars, allSegments, concurrency, mapResultsChan,
                   tickReady, mapRet, mapCalls, reduceCalls, outVars,
                   ticksFired>>

\* PromptBuilder.BuildMap fails on an empty segment text.
BuildMapFails(seg) == seg.Text = <<>>

\* A worker that waits on a ticker of its own and leaves the shared one alone.
MapWorkerTickOwnLimiter(i) ==
    /\ mw[i] = "waiting"
    /\ UNCHANGED tickReady
    /\ IF BuildMapFails(allSegments[i])
       THEN /\ mapResultsChan' = Append(mapResultsChan,
                                       [Summary |-> <<>>, Err |-> "prompt"])
            /\ mw' = [mw EXCEPT ![i] = "reported"]
            /\ UNCHANGED mapCalls
       ELSE /\ mw' = [mw EXCEPT ![i] = "calling"]
            /\ mapCalls' = [mapCalls EXCEPT ![i] = @ + 1]
            /\ UNCHANGED mapResultsChan
    /\ UNCHANGED <<segVars, optVars, pc, ctxDone, runErr, urls, scrapeVars,
                   fetchVars, allSegments, concurrency, sem, mapWg, mapRet,
                   reduceCalls, outVars,
                   ticksFired>>

\* select, case <-rateLimiter: the goroutine takes the tick, builds the
\* prompt and calls GenerateContent.
MapWorkerTick(i) ==
    /\ mw[i] = "waiting"
    /\ tickReady
    /\ tickReady' = FALSE
    /\ IF BuildMapFails(allSegments[i])
       THEN /\ mapResultsChan' = Append(mapResultsChan,
                                       [Summary |-> <<>>, Err |-> "prompt"])
            /\ mw' = [mw EXCEPT ![i] = "reported"]
            /\ UNCHANGED mapCalls
       ELSE /\ mw' = [mw EXCEPT ![i] = "calling"]
            /\ mapCalls' = [mapCalls EXCEPT ![i] = @ + 1]
            /\ UNCHANGED mapResultsChan
    /\ UNCHANGED <<segVars, optVars, pc, ctxDone, runErr, urls, scrapeVars,
                   fetchVars, allSegments, concurrency, sem, mapWg, mapRet,
                   reduceCalls, outVars,
                   ticksFired>>

\* A cancellation case without its return: the goroutine reports the
\* cancellation and goes on to the generation call.
MapWorkerCancelledNoReturn(i) ==
    /\ mw[i] = "waiting"
    /\ ctxDone
    /\ mapResultsChan' = Append(mapResultsChan,
                                [Summary |-> <<>>, Err |-> "cancel"])
    /\ mw' = [mw EXCEPT ![i] = "calling"]
    /\ mapCalls' = [mapCalls EXCEPT ![i] = @ + 1]
    /\ UNCHANGED <<segVars, optVars, pc, ctxDone, runErr, urls, scrapeVars,
                   fetchVars, allSegments, concurrency, sem, mapWg, tickReady,
                   mapRet, reduceCalls, outVars,
                   ticksFired>>

\* select, case <-ctx.Done(): the goroutine reports the cancellation.
MapWorkerCancelled(i) ==
    /\ mw[i] = "waiting"
    /\ ctxDone
    /\ mapResultsChan' = Append(mapResultsChan,
                                [Summary |-> <<>>, Err |-> "cancel"])
    /\ mw' = [mw EXCEPT ![i] = "reported"]
    /\ UNCHANGED <<segVars, optVars, pc, ctxDone, runErr, urls, scrapeVars,
                   fetchVars, allSegments, concurrency, sem, mapWg, tickReady,
                   mapRet, mapCalls, reduceCalls, outVars,
                   ticksFired>>

\* The text the generation service answers a Map prompt with: a summary of
\* the segment ("S" followed by the segment text), or nothing.
SummaryOf(seg) == <<83>> \o seg.Text

MapResponses(seg) == {SummaryOf(seg), <<>>}

\* A goroutine that calls GenerateContent a second time after an error.
MapWorkerReturnRetrying(i) ==
    /\ mw[i] = "calling"
    /\ \/ /\ mapCalls[i] < 2
          /\ mapCalls' = [mapCalls EXCEPT ![i] = @ + 1]
          /\ UNCHANGED <<mapResultsChan, mw>>
       \/ /\ mapResultsChan' = Append(mapResultsChan,
                                      [Summary |-> <<>>, Err |-> "gen"])
          /\ mw' = [mw EXCEPT ![i] = "reported"]
          /\ UNCHANGED mapCalls
       \/ /\ \E text \in MapResponses(allSegments[i]) :
                mapResultsChan' = Append(mapResultsChan,
                                         [Summary |-> text, Err |-> "none"])
          /\ mw' = [mw EXCEPT ![i] = "reported"]
          /\ UNCHANGED mapCalls
    /\ UNCHANGED <<segVars, optVars, pc, ctxDone, runErr, urls, scrapeVars,
                   fetchVars, allSegments, concurrency, sem, mapWg, tickReady,
                   mapRet, reduceCalls, outVars,
                   ticksFired>>

\* GenerateContent returns and the goroutine sends its result.
MapWorkerReturn(i) ==
    /\ mw[i] = "calling"
    /\ \/ mapResultsChan' = Append(mapResultsChan,
                                   [Summary |-> <<>>, Err |-> "gen"])
       \/ \E text \in MapResponses(allSegments[i]) :
             mapResultsChan' = Append(mapResultsChan,
                                      [Summary |-> text, Err |-> "none"])
    /\ mw' = [mw EXCEPT ![i] = "reported"]
    /\ UNCHANGED <<segVars, optVars, pc, ctxDone, runErr, urls, scrapeVars,
                   fetchVars, allSegments, concurrency, sem, mapWg, tickReady,
                   mapRet, mapCalls, reduceCalls, outVars,
                   ticksFired>>

\* Deferred calls run last-registered first: wg.Done(), then the slot is
\* released.
MapWorkerDone(i) ==
    /\ mw[i] = "reported"
    /\ mapWg' = mapWg - 1
    /\ mw' = [mw EXCEPT ![i] = "wgdone"]
    /\ UNCHANGED <<segVars, optVars, pc, ctxDone, runErr, urls, scrapeVars,
                   fetchVars, allSegments, concurrency, sem, mapResultsChan,
                   tickReady, mapRet, mapCalls, reduceCalls, outVars,
                   ticksFired>>

MapWorkerRelease(i) ==
    /\ mw[i] = "wgdone"
    /\ sem' = sem - 1
    /\ mw' = [mw EXCEPT ![i] = "exited"]
    /\ UNCHANGED <<segVars, optVars, pc, ctxDone, runErr, urls, scrapeVars,
                   fetchVars, allSegments, concurrency, mapWg, mapResultsChan,
                   tickReady, mapRet, mapCalls, reduceCalls, outVars,
                   ticksFired>>

\* The summaries of the outcomes before the first error.
RECURSIVE SummariesUntilError(_)
SummariesUntilError(outcomes) ==
    IF outcomes = <<>> \/ Head(outcomes).Err # "none" THEN <<>>
    ELSE <<Head(outcomes).Summary>> \o SummariesUntilError(Tail(outcomes))

RECURSIVE FirstError(_)
FirstError(outcomes) ==
    IF outcomes = <<>> THEN "none"
    ELSE IF Head(outcomes).Err # "none" THEN Head(outcomes).Err
    ELSE FirstError(Tail(outcomes))

\* The number of outcomes the scan of ExecuteMap receives from the closed
\* channel before it returns: all of them, or those up to the first error.
RECURSIVE ScannedOutcomes(_)
ScannedOutcomes(outcomes) ==
    IF outcomes = <<>> THEN 0
    ELSE IF Head(outcomes).Err # "none" THEN 1
    ELSE 1 + ScannedOutcomes(Tail(outcomes))

\* A scan that hands back the summaries collected before the error.
ExecuteMapResultPartial(outcomes) ==
    [done |-> TRUE, summaries |-> SummariesUntilError(outcomes),
     err |-> FirstError(outcomes)]

\* What ExecuteMap returns from the drained channel: the first error and no
\* list, or every summary in channel order.
ExecuteMapResult(outcomes) ==
    IF FirstError(outcomes) # "none"
    THEN [done |-> TRUE, summaries |-> <<>>, err |-> FirstError(outcomes)]
    ELSE [done |-> TRUE, summaries |-> SummariesUntilError(outcomes),
          err |-> "none"]

SummarySeparator == <<10, 10, 45, 45, 45, 32, 73, 78, 84, 69, 82, 77, 69, 68, 73, 65, 84, 69, 32, 83, 85, 77, 77, 65, 82, 89, 32, 69, 78, 68, 32, 45, 45, 45, 10, 10>>

\* strings.Join
RECURSIVE Join(_, _)
Join(ss, sep) ==
    IF ss = <<>> THEN <<>>
    ELSE IF Len(ss) = 1 THEN ss[1]
    ELSE ss[1] \o sep \o Join(Tail(ss), sep)

\* A wait that returns as soon as every goroutine has been started.
MapCollectNoWait ==
    /\ pc = "map"
    /\ \A i \in DOMAIN mw : mw[i] # "idle"
    /\ mapRet' = ExecuteMapResult(mapResultsChan)
    /\ tickReady' = FALSE
    /\ IF mapRet'.err # "none"
       THEN /\ ExecuteFails(PhaseCleanUp, mapRet'.err)
            /\ UNCHANGED combinedText
       ELSE /\ combinedText' = Join(mapRet'.summaries, SummarySeparator)
            /\ pc' = "reduce"
            /\ UNCHANGED runErr
    /\ UNCHANGED <<segVars, optVars, ctxDone, urls, scrapeVars, fetchVars,
                   allSegments, concurrency, sem, mapWg, mw, mapResultsChan,
                   mapCalls, reduceCalls, finalResponseText, cleanedText,
                   written, fetchLog,
                   ticksFired>>

\* After the loop: wg.Wait(), close(resultsChan), scan it (mapResultsChan
\* keeps the values that were sent, in order).  On an error ExecuteMap,
\* CleanAndStructureText, Generate and Execute return it; else
\* CleanAndStructureText joins the summaries for the Reduce call.
MapCollect ==
    /\ pc = "map"
    /\ \A i \in DOMAIN mw : mw[i] # "idle"
    /\ mapWg = 0
    /\ mapRet' = ExecuteMapResult(mapResultsChan)
    /\ tickReady' = FALSE
    /\ IF mapRet'.err # "none"
       THEN /\ ExecuteFails(PhaseCleanUp, mapRet'.err)
            /\ UNCHANGED combinedText
       ELSE /\ combinedText' = Join(mapRet'.summaries, SummarySeparator)
            /\ pc' = "reduce"
            /\ UNCHANGED runErr
    /\ UNCHANGED <<segVars, optVars, ctxDone, urls, scrapeVars, fetchVars,
                   allSegments, concurrency, sem, mapWg, mw, mapResultsChan,
                   mapCalls, reduceCalls, finalResponseText, cleanedText,
                   written, fetchLog,
                   ticksFired>>

\* ------------------------------------------------------------------------
\* LLMConcurrentExecutor.ExecuteReduce and cleanFinalOutput
\* ------------------------------------------------------------------------
\* PromptBuilder.BuildReduce fails on an empty combined text.
BuildReduceFails(text) == text = <<>>

\* ExecuteReduce builds the prompt and calls GenerateContent once.
ReduceCall ==
    /\ pc = "reduce"
    /\ IF BuildReduceFails(combinedText)
       THEN /\ ExecuteFails(PhaseCleanUp, "prompt")
            /\ UNCHANGED reduceCalls
       ELSE /\ pc' = "reducing"
            /\ reduceCalls' = reduceCalls + 1
            /\ UNCHANGED runErr
    /\ UNCHANGED <<segVars, optVars, ctxDone, urls, scrapeVars, fetchVars,
                   allSegments, concurrency, sem, mapWg, mw, mapResultsChan,
                   tickReady, mapRet, mapCalls, outVars,
                   ticksFired>>

FinalStartMarker == <<60, 70, 73, 78, 65, 76, 95, 83, 84, 65, 82, 84, 62>>

FinalEndMarker == <<60, 70, 73, 78, 65, 76, 95, 69, 78, 68, 62>>

\* strings.Index: the 0-based byte offset of the first occurrence of sep in
\* s, or -1.
SetMin(S) == CHOOSE x \in S : \A y \in S : x <= y

Index(s, sep) ==
    LET hits == {i \in 0..(Len(s) - Len(sep)) :
                    SubSeq(s, i + 1, i + Len(sep)) = sep}
    IN IF hits = {} THEN -1 ELSE SetMin(hits)

\* unicode.IsSpace on the ASCII range.
IsSpace(b) == b \in {9, 10, 11, 12, 13, 32}

\* strings.TrimSpace
RECURSIVE TrimLeft(_)
TrimLeft(s) ==
    IF s # <<>> /\ IsSpace(Head(s)) THEN TrimLeft(Tail(s)) ELSE s

RECURSIVE TrimRight(_)
TrimRight(s) ==
    IF s # <<>> /\ IsSpace(s[Len(s)])
    THEN TrimRight(SubSeq(s, 1, Len(s) - 1)) ELSE s

\* A trim that leaves the trailing whitespace in place.
TrimSpaceLeading(s) == TrimLeft(s)

TrimSpace(s) == TrimRight(TrimLeft(s))

\* An extraction that keeps the whitespace around the payload.
cleanFinalOutputUntrimmed(llmResponse) ==
    LET startIdx == Index(llmResponse, FinalStartMarker)
        endIdx == Index(llmResponse, FinalEndMarker)
    IN IF startIdx = -1 \/ endIdx = -1 \/ startIdx >= endIdx
       THEN TrimSpace(llmResponse)
       ELSE SubSeq(llmResponse, startIdx + Len(FinalStartMarker) + 1, endIdx)

cleanFinalOutput(llmResponse) ==
    LET startIdx == Index(llmResponse, FinalStartMarker)
        endIdx == Index(llmResponse, FinalEndMarker)
    IN IF startIdx = -1 \/ endIdx = -1 \/ startIdx >= endIdx
       THEN TrimSpace(llmResponse)
       ELSE TrimSpace(SubSeq(llmResponse,
                             startIdx + Len(FinalStartMarker) + 1, endIdx))

\* Raw texts the generation service answers the Reduce prompt with:
\* "n<FINAL_START> ok <FINAL_END>t", " raw " and
\* "<FINAL_END>x<FINAL_START>".
ReduceResponses ==
    {<<110, 60, 70, 73, 78, 65, 76, 95, 83, 84, 65, 82, 84, 62, 32, 111, 107, 32, 60, 70, 73, 78, 65, 76, 95, 69, 78, 68, 62, 116>>,
     <<32, 114, 97, 119, 32>>,
     <<60, 70, 73, 78, 65, 76, 95, 69, 78, 68, 62, 120, 60, 70, 73, 78, 65, 76, 95, 83, 84, 65, 82, 84, 62>>}

\* GenerateContent returns: an error goes up to Execute; a response is
\* stripped of its markers and Generate goes on to the output.
ReduceReturn ==
    /\ pc = "reducing"
    /\ \/ /\ ExecuteFails(PhaseCleanUp, "gen")
          /\ UNCHANGED <<finalResponseText, cleanedText>>
       \/ \E resp \in ReduceResponses :
             /\ finalResponseText' = resp
             /\ cleanedText' = cleanFinalOutput(resp)
             /\ pc' = "output"
             /\ UNCHANGED runErr
    /\ UNCHANGED <<segVars, optVars, ctxDone, urls, scrapeVars, fetchVars,
                   mapVars, combinedText, written,
                   fetchLog>>

\* ------------------------------------------------------------------------
\* LLMOutputGeneratorImpl.Generate: the output
\* ------------------------------------------------------------------------
previewLines == 10

\* Offsets (1-based) of the line feeds of s.
LineFeeds(s) == {i \in 1..Len(s) : s[i] = 10}

\* A preview that shows the content whole.
PreviewOfAllLines(content) == content

\* outputPreview: the first previewLines lines of the content.
PreviewOf(content) ==
    LET lfs == LineFeeds(content) IN
    IF Cardinality(lfs) < previewLines THEN content
    ELSE LET cut == CHOOSE i \in lfs :
                       Cardinality({j \in lfs : j <= i}) = previewLines
         IN SubSeq(content, 1, cut - 1)

\* ConvertMarkdownToHtml wraps the text in a document ("<" text ">").
HtmlOf(markdown) == <<60>> \o markdown \o <<62>>

\* What the destination holds after a writer call on content c: all of c
\* when the writer returns nil; when it returns an error, the destination is
\* untouched or was opened and left empty (the writers are outside this
\* repository).
Delivered(sink, c, ok) ==
    IF ok
    THEN {[sink |-> sink, content |-> c]}
    ELSE {NotWritten, [sink |-> sink, content |-> <<>>]}

\* Generate's output step with the writer called before the conversion to
\* HTML is known to have succeeded.
OutputWriteBeforeConvert ==
    /\ pc = "output"
    /\ \E path \in {"gcs", "local", "none"}, convErr \in BOOLEAN,
          writeOk \in BOOLEAN :
          LET sink == IF path = "none" THEN "stdout" ELSE path
              c    == IF path = "gcs" THEN HtmlOf(cleanedText)
                      ELSE IF path = "local" THEN cleanedText
                      ELSE PreviewOf(cleanedText)
          IN /\ convErr => path = "gcs"
             /\ \E w \in Delivered(sink, c, writeOk) : written' = w
             /\ IF convErr
                THEN ExecuteFails(PhaseCleanUp, "convert")
                ELSE IF ~writeOk
                THEN ExecuteFails(PhaseCleanUp, "write")
                ELSE pc' = "done" /\ UNCHANGED runErr
    /\ UNCHANGED <<segVars, optVars, ctxDone, urls, scrapeVars, fetchVars,
                   mapVars, combinedText, finalResponseText, cleanedText,
                   fetchLog>>

\* The sink is chosen from opts.OutputFilePath: a gs:// URI, another
\* non-empty path, or no path.  For a gs:// URI the conversion to HTML and
\* the parsing of the URI come first and either can fail, and then no writer
\* is called; the writer itself can fail too.
OutputWrite ==
    /\ pc = "output"
    /\ \E path \in {"gcs", "local", "none"}, convErr \in BOOLEAN,
          writeOk \in BOOLEAN :
          LET sink == IF path = "none" THEN "stdout" ELSE path
              c    == IF path = "gcs" THEN HtmlOf(cleanedText)
                      ELSE IF path = "local" THEN cleanedText
                      ELSE PreviewOf(cleanedText)
          IN /\ convErr => path = "gcs"
             /\ IF convErr
                THEN /\ ExecuteFails(PhaseCleanUp, "convert")
                     /\ UNCHANGED written
                ELSE /\ \E w \in Delivered(sink, c, writeOk) : written' = w
                     /\ IF writeOk
                        THEN pc' = "done" /\ UNCHANGED runErr
                        ELSE ExecuteFails(PhaseCleanUp, "write")
    /\ UNCHANGED <<segVars, optVars, ctxDone, urls, scrapeVars, fetchVars,
                   mapVars, combinedText, finalResponseText, cleanedText,
                   fetchLog>>

\* ------------------------------------------------------------------------
\* The pipeline specification: one run of Pipeline.Execute
\* ------------------------------------------------------------------------
Next ==
    \/ Cancel
    \/ URLGenerate
    \/ ScrapeDispatch
    \/ \E i \in DOMAIN fw : ScrapeWorkerStart(i)
    \/ \E i \in DOMAIN fw : ScrapeWorkerReturn(i)
    \/ \E i \in DOMAIN fw : ScrapeWorkerRelease(i)
    \/ \E i \in DOMAIN fw : ScrapeWorkerDone(i)
    \/ ScrapeCollect
    \/ FetchInitialDelay
    \/ FetchRetryDelay
    \/ RetryCall
    \/ RetryReturn
    \/ RetryFinish
    \/ CleanSegment
    \/ Tick
    \/ MapDispatch
    \/ \E i \in DOMAIN mw : MapWorkerTick(i)
    \/ \E i \in DOMAIN mw : MapWorkerCancelled(i)
    \/ \E i \in DOMAIN mw : MapWorkerReturn(i)
    \/ \E i \in DOMAIN mw : MapWorkerDone(i)
    \/ \E i \in DOMAIN mw : MapWorkerRelease(i)
    \/ MapCollect
    \/ ReduceCall
    \/ ReduceReturn
    \/ OutputWrite

Spec == Init /\ [][Next]_vars

\* The steps of a run that do not wait for time to pass: every step but the
\* expiry of a sleep, the firing of the ticker and the cancellation itself.
\* Goroutines that can run are scheduled, and the calls to the extractor and
\* to the generation service, which are handed ctx, return.
NextUntimed ==
    \/ URLGenerate
    \/ ScrapeDispatch
    \/ \E i \in DOMAIN fw : ScrapeWorkerStart(i)
    \/ \E i \in DOMAIN fw : ScrapeWorkerReturn(i)
    \/ \E i \in DOMAIN fw : ScrapeWorkerRelease(i)
    \/ \E i \in DOMAIN fw : ScrapeWorkerDone(i)
    \/ ScrapeCollect
    \/ RetryCall
    \/ RetryReturn
    \/ RetryFinish
    \/ CleanSegment
    \/ MapDispatch
    \/ \E i \in DOMAIN mw : MapWorkerTick(i)
    \/ \E i \in DOMAIN mw : MapWorkerCancelled(i)
    \/ \E i \in DOMAIN mw : MapWorkerReturn(i)
    \/ \E i \in DOMAIN mw : MapWorkerDone(i)
    \/ \E i \in DOMAIN mw : MapWorkerRelease(i)
    \/ MapCollect
    \/ ReduceCall
    \/ ReduceReturn
    \/ OutputWrite

\* A run in which time may stand still for as long as it likes.
FairSpec == Spec /\ WF_vars(NextUntimed)

\* ------------------------------------------------------------------------
\* The consolidation specification: OutputGen.Generate on an arbitrary list
\* of successful results, with an arbitrary concurrency handed to
\* NewLLMConcurrentExecutor
\* ------------------------------------------------------------------------
MaxResults == 2

MaxSegments == 3

MinMapConcurrency == 0

MaxMapConcurrency == 2

\* A text that is cut in two, and a text with a three-byte character whose
\* cut falls beyond its end.
LongText == <<97, 97, 97, 98>>

WideText == <<227, 129, 130, 10, 10, 97>>

CleanResultSet ==
    {[URL |-> "u1", Content |-> LongText, Error |-> "none"],
     [URL |-> "u2", Content |-> BlankText, Error |-> "none"],
     [URL |-> "u2", Content |-> WideText, Error |-> "none"]}

CleanInputs ==
    {rs \in SeqsUpTo(CleanResultSet, MaxResults) :
        /\ rs # <<>>
        /\ Len(SegmentsOfResults(rs).segments) <= MaxSegments}

CleanInit ==
    /\ SegmenterIdle
    /\ optMaxParallel = 1
    /\ maxConcurrency = NewParallelScraper(optMaxParallel)
    /\ optMapConcurrency \in MinMapConcurrency..MaxMapConcurrency
    /\ optURLFile = NoURLFile
    /\ concurrency = NewLLMConcurrentExecutor(FALSE, optMapConcurrency).concurrency
    /\ pc = "generate" /\ ctxDone \in BOOLEAN /\ runErr = NoError
    /\ successfulResults \in CleanInputs
    /\ urls = [i \in 1..Len(successfulResults) |-> successfulResults[i].URL]
    /\ fw = [i \in 1..Len(successfulResults) |-> "exited"]
    /\ semaphore = 0 /\ wg = 0 /\ resultsChan = <<>>
    /\ results = <<>> /\ failedURLs = <<>> /\ initialSuccessfulCount = 0
    /\ retryIdx = 0 /\ retryInFlight = FALSE
    /\ retriedSuccessfulResults = <<>> /\ retryFailedLog = <<>>
    /\ scrapeCalls = <<>> /\ lastExtract = NoExtract
    /\ CleanLocalsFresh

CleanNext ==
    \/ Cancel
    \/ CleanSegment
    \/ Tick
    \/ MapDispatch
    \/ \E i \in DOMAIN mw : MapWorkerTick(i)
    \/ \E i \in DOMAIN mw : MapWorkerCancelled(i)
    \/ \E i \in DOMAIN mw : MapWorkerReturn(i)
    \/ \E i \in DOMAIN mw : MapWorkerDone(i)
    \/ \E i \in DOMAIN mw : MapWorkerRelease(i)
    \/ MapCollect
    \/ ReduceCall
    \/ ReduceReturn
    \/ OutputWrite

CleanSpec == CleanInit /\ [][CleanNext]_vars

\* ------------------------------------------------------------------------
\* The classifier specification: classifyResults on an arbitrary result list
\* ------------------------------------------------------------------------
MaxClassified == 2

\* The URLResult values a scrape can hand over: any URL, with or without
\* content, with or without an error.
ClassifyResultSet ==
    {[URL |-> u, Content |-> c, Error |-> e] :
        u \in URLSet, c \in {<<>>, <<97>>}, e \in {"none", "extract", "cancel"}}

ClassifyInit ==
    /\ SegmenterIdle
    /\ optMaxParallel = 1 /\ optMapConcurrency = 1
    /\ optURLFile = NoURLFile
    /\ maxConcurrency = 1 /\ concurrency = 1
    /\ pc = "classify" /\ ctxDone = FALSE /\ runErr = NoError
    /\ urls = <<>> /\ semaphore = 0 /\ wg = 0 /\ fw = <<>>
    /\ resultsChan = <<>>
    /\ results \in SeqsUpTo(ClassifyResultSet, MaxClassified)
    /\ successfulResults = <<>> /\ failedURLs = <<>>
    /\ initialSuccessfulCount = 0 /\ retryIdx = 0 /\ retryInFlight = FALSE
    /\ retriedSuccessfulResults = <<>> /\ retryFailedLog = <<>>
    /\ scrapeCalls = <<>> /\ lastExtract = NoExtract
    /\ CleanLocalsFresh

ClassifyCall ==
    /\ pc = "classify"
    /\ LET c == classifyResults(results) IN
          /\ successfulResults' = c.successfulResults
          /\ failedURLs' = c.failedURLs
    /\ pc' = "classified"
    /\ UNCHANGED <<segVars, optVars, ctxDone, runErr, urls, scrapeVars,
                   results, initialSuccessfulCount, retryIdx, retryInFlight,
                   retriedSuccessfulResults, retryFailedLog, scrapeCalls, lastExtract,
                   mapVars, outVars>>

ClassifyNext == ClassifyCall

ClassifySpec == ClassifyInit /\ [][ClassifyNext]_vars

\* ------------------------------------------------------------------------
\* The retry specification: Fetch from the return of ScrapeInParallel on
\* ------------------------------------------------------------------------
MaxFetched == 3

\* The results ScrapeInParallel can hold for url: one per outcome of the
\* extractor, or the context's error when the worker saw the cancellation.
BatchResultsOf(u) ==
    {[URL |-> u, Content |-> o.content, Error |-> ExtractErr(o)] :
        o \in FetchOutcomes(u)}
    \cup {[URL |-> u, Content |-> <<>>, Error |-> "cancel"]}

RetryInit ==
    /\ SegmenterIdle
    /\ optMaxParallel = 1 /\ optMapConcurrency = DefaultMaxMapConcurrency
    /\ optURLFile = NoURLFile
    /\ maxConcurrency = 1 /\ concurrency = DefaultMaxMapConcurrency
    /\ pc = "delay1" /\ runErr = NoError
    /\ urls \in SeqsUpTo(URLSet, MaxFetched) /\ urls # <<>>
    /\ results \in [DOMAIN urls -> UNION {BatchResultsOf(u) : u \in URLSet}]
    /\ \A i \in DOMAIN urls : results[i] \in BatchResultsOf(urls[i])
    /\ ctxDone = (\E i \in DOMAIN urls : results[i].Error = "cancel")
    /\ semaphore = 0 /\ wg = 0 /\ resultsChan = <<>>
    /\ fw = [i \in DOMAIN urls |-> "exited"]
    /\ scrapeCalls = [i \in DOMAIN urls |->
                         IF results[i].Error = "cancel" THEN 0 ELSE 1]
    /\ lastExtract = NoExtract
    /\ successfulResults = <<>> /\ failedURLs = <<>>
    /\ initialSuccessfulCount = 0 /\ retryIdx = 0 /\ retryInFlight = FALSE
    /\ retriedSuccessfulResults = <<>> /\ retryFailedLog = <<>>
    /\ CleanLocalsFresh

RetryNext ==
    \/ FetchInitialDelay
    \/ FetchRetryDelay
    \/ RetryCall
    \/ RetryReturn
    \/ RetryFinish

RetrySpec == RetryInit /\ [][RetryNext]_vars

\* ------------------------------------------------------------------------
\* The URL file specification: Generate and parseURLs on an arbitrary file,
\* followed by the start of the parallel batch
\* ------------------------------------------------------------------------
MaxFileLen == 4

\* Line feed, space, '#' and a letter.
FileAlphabet == {10, 32, 35, 117}

\* bufio.ScanLines: the lines of the content, without their line feeds; no
\* line follows a final line feed.
RECURSIVE ScanLines(_)
ScanLines(content) ==
    IF content = <<>> THEN <<>>
    ELSE LET nl == Index(content, <<10>>) IN
         IF nl = -1 THEN <<content>>
         ELSE <<SubSeq(content, 1, nl)>>
              \o ScanLines(SubSeq(content, nl + 2, Len(content)))

\* strings.HasPrefix
HasPrefix(s, prefix) ==
    Len(s) >= Len(prefix) /\ SubSeq(s, 1, Len(prefix)) = prefix

\* A parser that tests and keeps the lines as they are read.
RECURSIVE parseLinesUntrimmed(_)
parseLinesUntrimmed(lines) ==
    IF lines = <<>> THEN <<>>
    ELSE LET line == Head(lines) IN
         IF line = <<>> \/ HasPrefix(line, <<35>>)
         THEN parseLinesUntrimmed(Tail(lines))
         ELSE <<line>> \o parseLinesUntrimmed(Tail(lines))

\* The loop of parseURLs: each line is trimmed; empty lines and lines that
\* begin with '#' are skipped, the others appended.
RECURSIVE parseLines(_)
parseLines(lines) ==
    IF lines = <<>> THEN <<>>
    ELSE LET line == TrimSpace(Head(lines)) IN
         IF line = <<>> \/ HasPrefix(line, <<35>>)
         THEN parseLines(Tail(lines))
         ELSE <<line>> \o parseLines(Tail(lines))

parseURLs(content) == parseLines(ScanLines(content))

ParseInit ==
    /\ SegmenterIdle
    /\ optMaxParallel = MaxParallel
    /\ optMapConcurrency = DefaultMaxMapConcurrency
    /\ optURLFile \in [path : {"", "f"},
                        content : SeqsUpTo(FileAlphabet, MaxFileLen)]
    /\ maxConcurrency = NewParallelScraper(optMaxParallel)
    /\ concurrency = DefaultMaxMapConcurrency
    /\ pc = "urlgen" /\ ctxDone = FALSE /\ runErr = NoError
    /\ urls = <<>> /\ successfulResults = <<>>
    /\ FetchLocalsFresh
    /\ CleanLocalsFresh

\* DefaultURLGeneratorImpl.Generate on the URL file of the options: the path
\* must not be empty, the reader must open it, the scanner must read it to
\* the end and at least one URL must be left; then Execute calls Fetch.
URLGenerateFromFile ==
    /\ pc = "urlgen"
    /\ \E openErr \in BOOLEAN, scanErr \in BOOLEAN :
          LET parsed == parseURLs(optURLFile.content)
              kind == IF optURLFile.path = "" THEN "nopath"
                      ELSE IF openErr THEN "open"
                      ELSE IF scanErr THEN "read"
                      ELSE IF Len(parsed) = 0 THEN "nourls"
                      ELSE "none"
          IN IF kind # "none"
             THEN /\ ExecuteFails(PhaseURLs, kind)
                  /\ UNCHANGED <<urls, fw, scrapeCalls>>
             ELSE /\ urls' = parsed
                  /\ fw' = [i \in 1..Len(parsed) |-> "idle"]
                  /\ scrapeCalls' = [i \in 1..Len(parsed) |-> 0]
                  /\ pc' = "scrape"
                  /\ UNCHANGED runErr
    /\ UNCHANGED <<segVars, optVars, ctxDone, maxConcurrency, semaphore, wg,
                   resultsChan, results, successfulResults, failedURLs,
                   initialSuccessfulCount, retryIdx, retryInFlight,
                   retriedSuccessfulResults, retryFailedLog, lastExtract,
                   mapVars, outVars>>

\* The run is followed until the extractor has been called for the URLs.
ParseNext ==
    \/ URLGenerateFromFile
    \/ ScrapeDispatch
    \/ \E i \in DOMAIN fw : ScrapeWorkerStart(i)

ParseSpec == ParseInit /\ [][ParseNext]_vars

\* ------------------------------------------------------------------------
\* The output specification: the output step of Generate on an arbitrary
\* cleaned text
\* ------------------------------------------------------------------------
MaxOutLen == 12

\* Line feed and a letter.
OutAlphabet == {10, 97}

\* The texts CleanAndStructureText can return: cleanFinalOutput trims them.
OutputInputs ==
    {t \in SeqsUpTo(OutAlphabet, MaxOutLen) : TrimSpace(t) = t}

OutputInit ==
    /\ SegmenterIdle
    /\ optMaxParallel = 1 /\ optMapConcurrency = 1
    /\ optURLFile = NoURLFile
    /\ maxConcurrency = 1 /\ concurrency = 1
    /\ pc = "output" /\ ctxDone = FALSE /\ runErr = NoError
    /\ urls = <<>> /\ successfulResults = <<>>
    /\ FetchLocalsFresh
    /\ allSegments = <<>> /\ sem = 0 /\ mapWg = 0 /\ mw = <<>>
    /\ mapResultsChan = <<>> /\ tickReady = FALSE
    /\ mapRet = [done |-> TRUE, summaries |-> <<>>, err |-> "none"]
    /\ mapCalls = <<>> /\ reduceCalls = 1
    /\ ticksFired = 0
    /\ combinedText = <<>>
    /\ cleanedText \in OutputInputs
    /\ finalResponseText = cleanedText
    /\ written = NotWritten
    /\ fetchLog = NoFetchLog

OutputNext == OutputWrite

OutputSpec == OutputInit /\ [][OutputNext]_vars

\* ------------------------------------------------------------------------
\* The marker specification: cleanFinalOutput on an arbitrary response
\* ------------------------------------------------------------------------
MaxTokens == 4

\* The pieces a response is made of: a letter, a blank, either marker.
MarkerTokens == {<<110>>, <<32>>, FinalStartMarker, FinalEndMarker}

\* "noise<FINAL_START> clean text <FINAL_END>trailing"
ExampleResponse == <<110, 111, 105, 115, 101, 60, 70, 73, 78, 65, 76, 95, 83, 84, 65, 82, 84, 62, 32, 99, 108, 101, 97, 110, 32, 116, 101, 120, 116, 32, 60, 70, 73, 78, 65, 76, 95, 69, 78, 68, 62, 116, 114, 97, 105, 108, 105, 110, 103>>

MarkerInputs ==
    {ConcatAll(ts) : ts \in SeqsUpTo(MarkerTokens, MaxTokens)}
        \cup {ExampleResponse}

MarkerInit ==
    /\ SegmenterIdle
    /\ optMaxParallel = 1 /\ optMapConcurrency = 1
    /\ optURLFile = NoURLFile
    /\ maxConcurrency = 1 /\ concurrency = 1
    /\ pc = "clean" /\ ctxDone = FALSE /\ runErr = NoError
    /\ urls = <<>> /\ successfulResults = <<>>
    /\ FetchLocalsFresh
    /\ allSegments = <<>> /\ sem = 0 /\ mapWg = 0 /\ mw = <<>>
    /\ mapResultsChan = <<>> /\ tickReady = FALSE
    /\ mapRet = NoMapReturn /\ mapCalls = <<>> /\ reduceCalls = 0
    /\ ticksFired = 0
    /\ combinedText = <<>>
    /\ finalResponseText \in MarkerInputs
    /\ cleanedText = <<>> /\ written = NotWritten
    /\ fetchLog = NoFetchLog

CleanFinalOutputCall ==
    /\ pc = "clean"
    /\ cleanedText' = cleanFinalOutput(finalResponseText)
    /\ pc' = "cleaned"
    /\ UNCHANGED <<segVars, optVars, ctxDone, runErr, urls, scrapeVars,
                   fetchVars, mapVars, combinedText, finalResponseText,
                   written, fetchLog>>

MarkerNext == CleanFinalOutputCall

MarkerSpec == MarkerInit /\ [][MarkerNext]_vars

\* ------------------------------------------------------------------------
\* Properties of the segmenter (checked under SegSpec)
\* ------------------------------------------------------------------------

\* C1: every segment the segmenter returns is at most maxChars code points
\* long, whatever characters the text contains.
SegmentsWithinMaxChars ==
    segPc = "returned" =>
        \A i \in 1..Len(segResult.segments) :
            RuneCount(segResult.segments[i]) <= segMaxChars

\* C2: the call returns, and concatenating the returned segments in order
\* reproduces the text exactly.
SegmentsConcatToText ==
    segPc # "call" =>
        /\ segPc = "returned"
        /\ ConcatAll(segResult.segments) = segText

\* C3 (as stated): a text of at most maxChars code points, the empty text
\* included, comes back as exactly one segment equal to the text.
UndersizedTextIsSingleSegment ==
    (segPc # "call" /\ RuneCount(segText) <= segMaxChars) =>
        /\ segPc = "returned"
        /\ segResult.segments = <<segText>>

\* C3 (amended): a non-empty text of at most maxChars code points comes
\* back as exactly one segment equal to the text; the empty text comes back
\* as the empty list.
UndersizedTextUnchanged ==
    (segPc # "call" /\ RuneCount(segText) <= segMaxChars) =>
        /\ segPc = "returned"
        /\ segResult.segments = IF segText = <<>> THEN <<>> ELSE <<segText>>

\* A multi-byte text of exactly maxChars code points has been segmented.
UndersizedTextSegmented ==
    /\ segPc = "returned"
    /\ RuneCount(segText) = segMaxChars
    /\ Len(segText) > segMaxChars
    /\ segResult.segments = <<segText>>

\* ------------------------------------------------------------------------
\* Properties of the Map stage (checked under CleanSpec)
\* ------------------------------------------------------------------------

\* C4: when the generation call of at least one segment has returned an
\* error, ExecuteMap returns an error and no summary list, and the run fails
\* in the consolidation phase without a Reduce call.
MapFailsFast ==
    (mapRet.done /\ \E i \in DOMAIN mapResultsChan :
                        mapResultsChan[i].Err = "gen") =>
        /\ mapRet.err # "none"
        /\ mapRet.summaries = <<>>
        /\ pc = "failed"
        /\ runErr = [phase |-> PhaseCleanUp, kind |-> mapRet.err]
        /\ combinedText = <<>>
        /\ reduceCalls = 0

\* ExecuteMap has returned after one segment was summarised and the call of
\* a later-reporting segment failed.
MapFailedAfterSuccess ==
    /\ mapRet.done
    /\ \E i, j \in DOMAIN mapResultsChan :
          /\ i < j
          /\ mapResultsChan[i].Err = "none"
          /\ mapResultsChan[i].Summary # <<>>
          /\ mapResultsChan[j].Err = "gen"

\* C9: the executor is built whatever concurrency it is given, with
\* N = the supplied value when it is at least 1 and N = 1 otherwise; at
\* every moment at most N workers hold a slot and at most N generation
\* calls are in flight.
MapSlotsBounded ==
    LET N == IF optMapConcurrency >= 1 THEN optMapConcurrency ELSE 1
        holders == {i \in DOMAIN mw :
                       mw[i] \in {"waiting", "calling", "reported", "wgdone"}}
    IN /\ ~NewLLMConcurrentExecutor(FALSE, optMapConcurrency).err
       /\ concurrency = N
       /\ sem = Cardinality(holders)
       /\ Cardinality(holders) <= N
       /\ Cardinality({i \in DOMAIN mw : mw[i] = "calling"}) <= N

\* An executor given a concurrency below 1 has a call in flight while the
\* next segment waits for the slot.
MapSlotExhaustedBelowOne ==
    /\ optMapConcurrency < 1
    /\ pc = "map"
    /\ \E i, j \in DOMAIN mw : mw[i] = "calling" /\ mw[j] = "idle"

\* ------------------------------------------------------------------------
\* Properties of the classifier (checked under ClassifySpec)
\* ------------------------------------------------------------------------

\* C7: a result is classified successful if and only if it has no error and
\* non-empty content; every other result, a result with no error and empty
\* content included, has its URL in the failed list.
ClassifierSuccessIffNoErrorAndContent ==
    pc = "classified" =>
        LET ok == SelectSeq(results,
                      LAMBDA r : r.Error = "none" /\ r.Content # <<>>)
            ko == SelectSeq(results,
                      LAMBDA r : ~(r.Error = "none" /\ r.Content # <<>>))
        IN /\ successfulResults = ok
           /\ failedURLs = [i \in 1..Len(ko) |-> ko[i].URL]

\* A result with no error and empty content has been classified as failed.
EmptyContentClassifiedFailed ==
    /\ pc = "classified"
    /\ \E i \in DOMAIN results :
          /\ results[i].Error = "none"
          /\ results[i].Content = <<>>
          /\ \A j \in DOMAIN successfulResults :
                successfulResults[j] # results[i]
          /\ \E j \in DOMAIN failedURLs : failedURLs[j] = results[i].URL

\* ------------------------------------------------------------------------
\* Properties of the pipeline (checked under Spec)
\* ------------------------------------------------------------------------

\* C5: when the retry pass ends with no initial and no retried success, Fetch
\* fails with the no-content error in the content phase, and a run that has
\* failed so has made no Map or Reduce call and has written nothing.
EmptyBatchIsFatal ==
    /\ [][(/\ pc = "retry"
           /\ pc' # "retry"
           /\ successfulResults = <<>>
           /\ retriedSuccessfulResults = <<>>)
          => (/\ pc' = "failed"
              /\ runErr' = [phase |-> PhaseContent, kind |-> "nocontent"])]_vars
    /\ [](runErr.kind = "nocontent" =>
             /\ pc = "failed"
             /\ runErr.phase = PhaseContent
             /\ allSegments = <<>>
             /\ \A i \in DOMAIN mapCalls : mapCalls[i] = 0
             /\ reduceCalls = 0
             /\ written = NotWritten)

\* Every URL of a list of at least two failed its initial fetch and its
\* retry, and the run has failed.
EmptyBatchFailed ==
    /\ pc = "failed"
    /\ runErr.kind = "nocontent"
    /\ Len(urls) >= 2
    /\ Len(failedURLs) = Len(urls)
    /\ Len(retryFailedLog) = Len(urls)

\* C6: after the initial attempt every input URL is in exactly one of the
\* sets successful and failed, and when the retry pass is over no URL is
\* both in the final successful set and in the set that still failed.
ClassificationPartition ==
    LET S == {successfulResults[i].URL : i \in DOMAIN successfulResults}
        R == {retriedSuccessfulResults[i].URL :
                 i \in DOMAIN retriedSuccessfulResults}
        F == {failedURLs[i] : i \in DOMAIN failedURLs}
        L == {retryFailedLog[i] : i \in DOMAIN retryFailedLog}
        U == {urls[i] : i \in DOMAIN urls}
    IN /\ pc \in {"delay2", "retry"} => (S \cup F = U /\ S \cap F = {})
       /\ (pc = "retry" /\ retryIdx = Len(failedURLs) /\ ~retryInFlight)
              => (S \cup R) \cap L = {}

\* C8: the scraper's limit is N = the supplied value when it is greater
\* than 0 and 10 otherwise; at every moment at most N workers hold a slot
\* and at most N fetch calls are in flight.
FetchInFlightBounded ==
    LET N == IF optMaxParallel > 0 THEN optMaxParallel ELSE 10
        holders == {i \in DOMAIN fw :
                       fw[i] \in {"spawned", "calling", "reported"}}
    IN /\ maxConcurrency = N
       /\ semaphore = Cardinality(holders)
       /\ Cardinality(holders) <= N
       /\ Cardinality({i \in DOMAIN fw : fw[i] = "calling"}) <= N

\* A scraper limited to one has a fetch call in flight while the next URL
\* waits for the slot.
FetchSlotExhausted ==
    /\ pc = "scrape"
    /\ optMaxParallel = 1
    /\ \E i, j \in DOMAIN fw : fw[i] = "calling" /\ fw[j] = "idle"

\* C10: a retry fetch starts only after every worker of the parallel batch
\* has reported; a Map generation call starts only after the retry pass is
\* over; the Reduce generation call starts only after every Map worker has
\* reported.
StageBarriers ==
    LET fetchReported == \A i \in DOMAIN fw :
                            fw[i] \in {"reported", "released", "exited"}
        mapReported == \A i \in DOMAIN mw :
                          mw[i] \in {"reported", "wgdone", "exited"}
    IN /\ (pc = "retry" /\ (retryIdx > 0 \/ retryInFlight)) =>
              (fetchReported /\ Len(results) = Len(urls))
       /\ (\E i \in DOMAIN mapCalls : mapCalls[i] > 0) =>
              /\ fetchReported
              /\ ~retryInFlight
              /\ pc \notin {"urlgen", "scrape", "delay1", "delay2", "retry"}
       /\ reduceCalls > 0 =>
              /\ mapReported
              /\ Len(mapResultsChan) = Len(allSegments)
              /\ pc \in {"reducing", "output", "done", "failed"}

\* A retry fetch is in flight for a list of at least two URLs whose workers
\* have all exited.
RetryAfterFetchBatch ==
    /\ pc = "retry"
    /\ retryInFlight
    /\ Len(urls) >= 2
    /\ \A i \in DOMAIN fw : fw[i] = "exited"

\* ------------------------------------------------------------------------
\* Properties of cancellation (checked under FairSpec and Spec)
\* ------------------------------------------------------------------------

\* C11: once cancellation has been raised, a wait for a semaphore slot, a
\* wait for the rate-limiter tick and each of the two cool-down sleeps of
\* Fetch ends without the waited-for time having to pass.
CancellationEndsWaits ==
    /\ (ctxDone /\ pc = "delay1") ~> (pc # "delay1")
    /\ (ctxDone /\ pc = "delay2") ~> (pc # "delay2")
    /\ \A i \in 1..MaxURLs :
          (ctxDone /\ pc = "scrape" /\ i \in DOMAIN fw /\ fw[i] = "idle")
              ~> ~(pc = "scrape" /\ i \in DOMAIN fw /\ fw[i] = "idle")
    /\ \A i \in 1..MaxURLs :
          (ctxDone /\ pc = "map" /\ i \in DOMAIN mw /\ mw[i] = "idle")
              ~> ~(pc = "map" /\ i \in DOMAIN mw /\ mw[i] = "idle")
    /\ \A i \in 1..MaxURLs :
          (ctxDone /\ pc = "map" /\ i \in DOMAIN mw /\ mw[i] = "waiting")
              ~> ~(pc = "map" /\ i \in DOMAIN mw /\ mw[i] = "waiting")

\* C12: a worker of the parallel batch that finds the context done when it
\* starts sends a result for its URL carrying the cancellation error and
\* goes on to its exit; the extractor is called for a list entry only by
\* a worker that found the context not done.
CancelledWorkerSkipsFetch ==
    /\ [][\A i \in DOMAIN fw :
             (fw[i] = "spawned" /\ ctxDone /\ i \in DOMAIN fw'
                  /\ fw'[i] # "spawned") =>
                 /\ fw'[i] = "reported"
                 /\ resultsChan' = Append(resultsChan,
                        [URL |-> urls[i], Content |-> <<>>,
                         Error |-> "cancel"])
                 /\ scrapeCalls' = scrapeCalls]_vars
    /\ [][\A i \in DOMAIN scrapeCalls :
             (i \in DOMAIN scrapeCalls' /\ scrapeCalls'[i] # scrapeCalls[i]) =>
                 (fw[i] = "spawned" /\ ~ctxDone /\ fw'[i] = "calling")]_vars
    /\ [](\A i \in DOMAIN fw :
             fw[i] = "calling" => (i \in DOMAIN scrapeCalls
                                      /\ scrapeCalls[i] = 1))

\* One worker has fetched and reported; a later worker found the context
\* done, reported the cancellation and exited without a call.
WorkerSkippedAfterCancel ==
    /\ ctxDone
    /\ pc = "scrape"
    /\ \E i, j \in DOMAIN fw :
          /\ scrapeCalls[i] = 1
          /\ fw[j] = "exited"
          /\ scrapeCalls[j] = 0
          /\ \E k \in DOMAIN resultsChan :
                resultsChan[k] = [URL |-> urls[j], Content |-> <<>>,
                                  Error |-> "cancel"]

\* C13: a Map worker that is still at the rate-limiter wait when the context
\* is done leaves the wait by reporting the cancellation, without a
\* generation call, and then releases its slot.
CancelledMapWorkerSkipsCall ==
    [][\A i \in DOMAIN mw :
          (mw[i] = "waiting" /\ ctxDone /\ i \in DOMAIN mw'
               /\ mw'[i] # "waiting") =>
              /\ mw'[i] = "reported"
              /\ mapResultsChan' = Append(mapResultsChan,
                                          [Summary |-> <<>>, Err |-> "cancel"])
              /\ mapCalls' = mapCalls]_vars

\* C14: a run that fails because the cancellation was observed returns an
\* error of the cancellation kind: in the fetch stage when every worker of
\* the batch reported the cancellation, in the Map stage when ExecuteMap
\* returned the cancellation error of a worker.
CancellationErrorRecognizable ==
    /\ (/\ pc = "failed"
        /\ runErr.phase = PhaseContent
        /\ results # <<>>
        /\ \A i \in DOMAIN results : results[i].Error = "cancel")
           => runErr.kind = "cancel"
    /\ (pc = "failed" /\ mapRet.done /\ mapRet.err = "cancel")
           => runErr = [phase |-> PhaseCleanUp, kind |-> "cancel"]

\* ------------------------------------------------------------------------
\* Properties of the retry pass (checked under Spec)
\* ------------------------------------------------------------------------

\* C15: counting the extractor calls per URL (those of the parallel batch
\* and those of the retry pass), a URL that succeeded initially is not
\* fetched in the retry pass, a URL that failed initially is fetched once
\* more when the pass is over, and no URL is fetched more than twice.
RetriedExactlyOnce ==
    LET S == {successfulResults[i].URL : i \in DOMAIN successfulResults}
        F == {failedURLs[i] : i \in DOMAIN failedURLs}
        initial(u) == Cardinality({i \in DOMAIN scrapeCalls :
                                      urls[i] = u /\ scrapeCalls[i] > 0})
        retried(u) == Cardinality({k \in 1..retryIdx : failedURLs[k] = u})
    IN pc = "retry" =>
          /\ \A u \in S : retried(u) = 0
          /\ \A u \in F : retried(u) <= 1
          /\ (retryIdx = Len(failedURLs)) => \A u \in F : retried(u) = 1
          /\ \A u \in S \cup F : initial(u) + retried(u) <= 2

\* C16: in the retry pass no worker of the parallel batch is still calling
\* and at most one retry call is in flight; a retry starts only after every
\* earlier retry has returned and been recorded.
RetrySequential ==
    pc = "retry" =>
        /\ \A i \in DOMAIN fw : fw[i] = "exited"
        /\ retryIdx <= Len(failedURLs)
        /\ Len(retriedSuccessfulResults) + Len(retryFailedLog)
               = retryIdx - (IF retryInFlight THEN 1 ELSE 0)

\* The retry of the second failed URL is in flight after the retry of the
\* first has returned.
SecondRetryInFlight ==
    /\ pc = "retry"
    /\ retryInFlight
    /\ retryIdx = 2
    /\ Len(retriedSuccessfulResults) + Len(retryFailedLog) = 1

\* ------------------------------------------------------------------------
\* Properties of the rate limiter and of Reduce (checked under CleanSpec)
\* ------------------------------------------------------------------------

\* C17: the workers of ExecuteMap share one ticker: every worker makes at
\* most one generation call, and the generation calls started never
\* outnumber the ticks the ticker has delivered, whatever the concurrency.
MapCallsWithinTicks ==
    LET started == {i \in DOMAIN mapCalls : mapCalls[i] > 0}
    IN /\ \A i \in DOMAIN mapCalls : mapCalls[i] <= 1
       /\ Cardinality(started) <= ticksFired
       /\ \A i \in DOMAIN mw : mw[i] = "calling" => mapCalls[i] = 1

\* With a concurrency of at least two, two generation calls are in flight
\* at once, each after a tick of its own.
TwoMapCallsInFlight ==
    /\ pc = "map"
    /\ concurrency >= 2
    /\ ticksFired >= 2
    /\ \E i, j \in DOMAIN mw :
          i # j /\ mw[i] = "calling" /\ mw[j] = "calling"

\* C18: a run makes at most one Reduce generation call; it makes none when
\* the fetch stage failed or when a Map segment failed; and once a run is
\* over whose fetch stage succeeded and none of whose Map segments failed,
\* it has made exactly one.
ReduceCalledOnceIffAllSucceed ==
    /\ reduceCalls <= 1
    /\ runErr.phase \in {PhaseURLs, PhaseContent} => reduceCalls = 0
    /\ (\E k \in DOMAIN mapResultsChan : mapResultsChan[k].Err # "none")
           => reduceCalls = 0
    /\ (/\ pc \in {"done", "failed", "panicked"}
        /\ runErr.phase \notin {PhaseURLs, PhaseContent}
        /\ successfulResults # <<>>
        /\ \A k \in DOMAIN mapResultsChan : mapResultsChan[k].Err = "none")
           => reduceCalls = 1

\* C19: when every segment has been summarised, the text handed to Reduce is
\* the same whatever the order in which the workers completed: it is the
\* join of the summaries in the order of the segments.
ReduceRequestOrderInvariant ==
    (/\ mapRet.done
     /\ mapRet.err = "none"
     /\ \A k \in DOMAIN mapResultsChan : mapResultsChan[k].Summary # <<>>)
        => combinedText =
              Join([i \in DOMAIN allSegments |-> SummaryOf(allSegments[i])],
                   SummarySeparator)

\* ------------------------------------------------------------------------
\* Properties of the marker extraction (checked under MarkerSpec)
\* ------------------------------------------------------------------------

\* C20: when the response holds both markers and the first <FINAL_START>
\* begins before the first <FINAL_END>, the payload is the text between
\* the end of that start marker and the beginning of that end marker, less
\* the whitespace at its two ends; for the response
\* noise<FINAL_START> clean text <FINAL_END>trailing it is "clean text".
MarkerPayloadExtracted ==
    pc = "cleaned" =>
        LET r == finalResponseText
            occ(m) == {i \in 0..(Len(r) - Len(m)) :
                          \A k \in 1..Len(m) : r[i + k] = m[k]}
            first(S) == CHOOSE x \in S : \A y \in S : x <= y
            blank(c) == c \in {9, 10, 11, 12, 13, 32}
        IN /\ (/\ occ(FinalStartMarker) # {}
               /\ occ(FinalEndMarker) # {}
               /\ first(occ(FinalStartMarker)) < first(occ(FinalEndMarker)))
              => LET from == first(occ(FinalStartMarker))
                                + Len(FinalStartMarker)
                     to == first(occ(FinalEndMarker))
                 IN \E a \in from..to, z \in from..to :
                       /\ a <= z
                       /\ cleanedText = [k \in 1..(z - a) |-> r[a + k]]
                       /\ \A k \in (from + 1)..a : blank(r[k])
                       /\ \A k \in (z + 1)..to : blank(r[k])
                       /\ a < z => (~blank(r[a + 1]) /\ ~blank(r[z]))
           /\ r = ExampleResponse => cleanedText = <<99, 108, 101, 97, 110, 32, 116, 101, 120, 116>>

\* The example response has been cleaned to "clean text".
ExamplePayloadExtracted ==
    /\ pc = "cleaned"
    /\ finalResponseText = ExampleResponse
    /\ cleanedText = <<99, 108, 101, 97, 110, 32, 116, 101, 120, 116>>

\* C21: when a marker is missing from the response, or the first
\* <FINAL_START> does not begin before the first <FINAL_END>, the payload is
\* the whole response less the whitespace at its two ends, and the call
\* returns without an error.
MarkerExtractionDegrades ==
    pc = "cleaned" =>
        LET r == finalResponseText
            occ(m) == {i \in 0..(Len(r) - Len(m)) :
                          \A k \in 1..Len(m) : r[i + k] = m[k]}
            first(S) == CHOOSE x \in S : \A y \in S : x <= y
            blank(c) == c \in {9, 10, 11, 12, 13, 32}
        IN (\/ occ(FinalStartMarker) = {}
            \/ occ(FinalEndMarker) = {}
            \/ first(occ(FinalStartMarker)) >= first(occ(FinalEndMarker)))
           => /\ runErr = NoError
              /\ \E a \in 0..Len(r), z \in 0..Len(r) :
                    /\ a <= z
                    /\ cleanedText = [k \in 1..(z - a) |-> r[a + k]]
                    /\ \A k \in 1..a : blank(r[k])
                    /\ \A k \in (z + 1)..Len(r) : blank(r[k])
                    /\ a < z => (~blank(r[a + 1]) /\ ~blank(r[z]))

\* A response with a start marker, no end marker and whitespace at both
\* ends has been cleaned to the text between the whitespace.
ResponseWithoutEndMarkerKept ==
    /\ pc = "cleaned"
    /\ Index(finalResponseText, FinalStartMarker) # -1
    /\ Index(finalResponseText, FinalEndMarker) = -1
    /\ finalResponseText[1] = 32
    /\ finalResponseText[Len(finalResponseText)] = 32
    /\ cleanedText # <<>>
    /\ Len(cleanedText) < Len(finalResponseText)


\* C22: a run that failed in URL generation, in the fetch, in Map, in Reduce
\* or in the conversion of the output has put nothing at the output
\* destination, and whenever something is there Map returned all its
\* summaries without error, Reduce was called and returned, and the content
\* was made from the payload extracted from the Reduce response.
NothingWrittenOnFailure ==
    /\ (pc \in {"failed", "panicked"} /\ runErr.kind # "write")
           => written = NotWritten
    /\ written # NotWritten =>
           /\ pc \in {"done", "failed"}
           /\ mapRet # NoMapReturn /\ mapRet.err = "none"
           /\ Len(mapRet.summaries) = Len(allSegments)
           /\ reduceCalls = 1
           /\ cleanedText = cleanFinalOutput(finalResponseText)
           /\ \E c \in {HtmlOf(cleanedText), cleanedText,
                        PreviewOf(cleanedText)} :
                  \E k \in 0..Len(c) : written.content = SubSeq(c, 1, k)

\* C22 witness: the conversion to HTML failed after Map and Reduce had
\* succeeded, and the destination is untouched.
ConversionFailedNothingWritten ==
    /\ pc = "failed" /\ runErr.kind = "convert"
    /\ cleanedText # <<>> /\ reduceCalls = 1
    /\ written = NotWritten

\* C23: Execute runs URL generation, then the fetch, then the clean-up and
\* output; a step that makes it fail records the phase of the stage it was
\* in, the stages after the failing one have not been entered, no fetch,
\* generation call or write happens after Execute has returned, and it
\* returns without error only from the end of the last stage.
StagesInOrderAndNamed ==
    [][LET fetchPcs == {"scrape", "delay1", "delay2", "retry"}
           cleanPcs == {"generate", "map", "reduce", "reducing", "output"}
       IN /\ pc \in {"done", "failed", "panicked"} =>
                UNCHANGED <<pc, runErr, scrapeCalls, mapCalls, reduceCalls,
                            written>>
          /\ pc' \in fetchPcs => pc \in {"urlgen"} \cup fetchPcs
          /\ pc' \in cleanPcs \cup {"panicked"} =>
                pc \in fetchPcs \cup cleanPcs \cup {"panicked"}
          /\ pc' = "done" => pc \in {"output", "done"} /\ runErr' = NoError
          /\ (runErr' # NoError) <=> (pc' = "failed")
          /\ (pc' = "failed" /\ pc # "failed") =>
                /\ runErr'.phase = IF pc = "urlgen" THEN PhaseURLs
                                   ELSE IF pc \in fetchPcs THEN PhaseContent
                                   ELSE PhaseCleanUp
                /\ pc = "urlgen" => FetchLocalsFresh' /\ CleanLocalsFresh'
                /\ pc \in fetchPcs => CleanLocalsFresh'
    ]_vars

\* C23 witness: the fetch stage failed after URL generation had succeeded;
\* the error names the content phase and the clean-up was never entered.
FetchStageFailedNamed ==
    /\ pc = "failed" /\ runErr.phase = PhaseContent
    /\ urls # <<>> /\ Len(results) = Len(urls)
    /\ CleanLocalsFresh

\* C24: when Fetch returns its results, they are the results of the batch
\* that carry no error and some content, in batch order, followed by the
\* retried successes in retry order; the logged initial and retried counts
\* are the lengths of those two parts and add up to the size of the returned
\* set.  With three sources, two initial successes and one retried success
\* the set has three results and the counts are 2 and 1.
FinalSetIsInitialThenRetried ==
    [][pc' = "generate" =>
          LET initial == SelectSeq(results,
                             LAMBDA r : r.Error = "none" /\ r.Content # <<>>)
              retried == retriedSuccessfulResults
          IN /\ successfulResults' = initial \o retried
             /\ fetchLog'.logged
             /\ fetchLog'.initial_successful = Len(initial)
             /\ fetchLog'.retry_successful = Len(retried)
             /\ fetchLog'.initial_successful + fetchLog'.retry_successful
                    = Len(successfulResults')
             /\ (Len(urls) = 3 /\ Len(initial) = 2 /\ Len(retried) = 1) =>
                    /\ Len(successfulResults') = 3
                    /\ fetchLog'.initial_successful = 2
                    /\ fetchLog'.retry_successful = 1
    ]_vars

\* C24 witness: three sources, two succeeded in the batch and the third on
\* its retry; Fetch has returned three results and logged 2 and 1.
ThreeSourcesOneRetried ==
    /\ pc = "generate" /\ Len(urls) = 3
    /\ Len(successfulResults) = 3
    /\ fetchLog = [logged |-> TRUE, successful |-> 3, total |-> 3,
                   initial_successful |-> 2, retry_successful |-> 1]

\* C25: when ExecuteMap has returned without an error, its list is as long
\* as the list of segments and matches it one to one in some order: each
\* summary is a response to the prompt of its own segment.
MapReturnsOneSummaryPerSegment ==
    (mapRet.done /\ mapRet.err = "none") =>
        /\ Len(mapRet.summaries) = Len(allSegments)
        /\ \E f \in [DOMAIN allSegments -> DOMAIN allSegments] :
              /\ \A i, j \in DOMAIN allSegments : f[i] = f[j] => i = j
              /\ \A i \in DOMAIN allSegments :
                    mapRet.summaries[f[i]] \in MapResponses(allSegments[i])

\* C25 witness: Map returned two summaries without error, in the reverse of
\* the order of their segments.
MapReturnedOutOfOrder ==
    /\ mapRet.done /\ mapRet.err = "none"
    /\ Len(allSegments) = 2
    /\ allSegments[1].Text # allSegments[2].Text
    /\ mapRet.summaries = <<SummaryOf(allSegments[2]), SummaryOf(allSegments[1])>>

\* C26: ExecuteMap calls the generation service at most once for each
\* segment: a call is made only by a goroutine that has made none, and a
\* goroutine that has reported its result, error or not, makes no call.
MapCallsAtMostOncePerSegment ==
    [][\A i \in DOMAIN mapCalls :
          /\ mapCalls[i] <= 1
          /\ (i \in DOMAIN mapCalls' /\ mapCalls'[i] # mapCalls[i]) =>
                /\ mapCalls[i] = 0 /\ mapCalls'[i] = 1
                /\ mw[i] = "waiting"
    ]_vars

\* C26 witness: Map failed on a generation error and every segment's
\* goroutine has exited after one call at most, one of them after exactly one.
MapFailedWithoutRetry ==
    /\ pc = "failed" /\ runErr.kind = "gen" /\ reduceCalls = 0
    /\ mapRet.done /\ mapRet.err = "gen"
    /\ Len(allSegments) >= 2
    /\ \A i \in DOMAIN mw : mw[i] = "exited" /\ mapCalls[i] = 1

\* C27: every result of the parallel batch whose content is not empty and
\* made of whitespace only carries the no-body error, and once the batch is
\* classified no such result is among the successful ones.
WhitespaceContentIsNoBody ==
    LET blank(c) == c # <<>> /\ \A k \in DOMAIN c : IsSpace(c[k])
    IN /\ \A i \in DOMAIN results :
             blank(results[i].Content) => results[i].Error = "nobody"
       /\ \A i \in DOMAIN successfulResults :
             ~blank(successfulResults[i].Content)

\* C28: when a call of the extractor returns no error and found = false,
\* whatever the content: in the parallel batch the result that is sent
\* carries the no-body error, the classification puts no result with an
\* error among the successful ones, and in the retry pass the URL is logged
\* as failed and not appended to the retried successes.
NotFoundIsFailure ==
    [][LET e == lastExtract'
           notFound == e.returned /\ ~e.err /\ ~e.hasBodyFound
       IN /\ ((\E i \in DOMAIN fw : fw[i] = "calling" /\ fw'[i] = "reported")
                /\ notFound) =>
                resultsChan'[Len(resultsChan')].Error = "nobody"
          /\ (pc = "delay1" /\ pc' # "delay1") =>
                /\ \A j \in DOMAIN successfulResults' :
                      successfulResults'[j].Error = "none"
                /\ Len(successfulResults') <=
                      Cardinality({k \in DOMAIN results :
                                      results[k].Error = "none"})
          /\ (retryInFlight /\ ~retryInFlight' /\ notFound) =>
                /\ retriedSuccessfulResults' = retriedSuccessfulResults
                /\ Len(retryFailedLog') = Len(retryFailedLog) + 1
    ]_vars

\* C28 witness: the batch call for u1 returned its text with found = false
\* and was classified failed, and its retry has returned the text with
\* found = false again: nothing was retried successfully.
NotFoundWithContentFailedTwice ==
    /\ pc = "retry" /\ ~retryInFlight /\ retryIdx = 1
    /\ results = <<[URL |-> "u1", Content |-> <<97>>, Error |-> "nobody"]>>
    /\ failedURLs = <<"u1">>
    /\ lastExtract = [content |-> <<97>>, hasBodyFound |-> FALSE,
                      err |-> FALSE, returned |-> TRUE]
    /\ retriedSuccessfulResults = <<>> /\ retryFailedLog = <<"u1">>

\* C29: with a positive configured parallelism, whatever its value, the
\* fetch calls in flight at one moment never outnumber the documented limit.
FetchInFlightWithinDocumentedCap ==
    optMaxParallel > 0 =>
        Cardinality({i \in DOMAIN fw : fw[i] = "calling"}) <= ScaledParallelCap

\* C30 as stated: the list URL generation returns is made of the lines of
\* the file, as they stand, that are neither blank nor beginning with '#',
\* in file order.
URLListIsUnmarkedLines ==
    [][(pc = "urlgen" /\ pc' = "scrape") =>
          LET c == optURLFile.content
              starts == {i \in 1..Len(c) : i = 1 \/ c[i - 1] = 10}
              end(i) == CHOOSE j \in i..(Len(c) + 1) :
                            /\ j = Len(c) + 1 \/ c[j] = 10
                            /\ \A k \in i..(j - 1) : c[k] # 10
              line(i) == SubSeq(c, i, end(i) - 1)
              blank(l) == \A k \in DOMAIN l : IsSpace(l[k])
              kept == {i \in starts : ~blank(line(i)) /\ line(i)[1] # 35}
          IN /\ Len(urls') = Cardinality(kept)
             /\ \A i \in kept :
                   urls'[Cardinality({j \in kept : j <= i})] = line(i)
    ]_vars

\* C30: the list URL generation returns is made, in file order, of the lines
\* of the file with the whitespace at their two ends removed, for the lines
\* that are then neither empty nor beginning with '#'; when the path is
\* empty, the file cannot be opened or read, or no such line remains, URL
\* generation fails with the URL phase's error, no fetch worker exists and
\* none is ever started.
URLListIsTrimmedLines ==
    [][LET c == optURLFile.content
           starts == {i \in 1..Len(c) : i = 1 \/ c[i - 1] = 10}
           end(i) == CHOOSE j \in i..(Len(c) + 1) :
                         /\ j = Len(c) + 1 \/ c[j] = 10
                         /\ \A k \in i..(j - 1) : c[k] # 10
           body(i) == {k \in i..(end(i) - 1) : ~IsSpace(c[k])}
           first(S) == CHOOSE x \in S : \A y \in S : x <= y
           last(S) == CHOOSE x \in S : \A y \in S : x >= y
           trimmed(i) == SubSeq(c, first(body(i)), last(body(i)))
           kept == {i \in starts : body(i) # {} /\ c[first(body(i))] # 35}
       IN /\ (pc = "urlgen" /\ pc' = "scrape") =>
                /\ optURLFile.path # "" /\ kept # {}
                /\ Len(urls') = Cardinality(kept)
                /\ \A i \in kept :
                      urls'[Cardinality({j \in kept : j <= i})] = trimmed(i)
          /\ (pc = "urlgen" /\ pc' # "urlgen"
                /\ (optURLFile.path = "" \/ kept = {})) =>
                /\ pc' = "failed" /\ runErr'.phase = PhaseURLs
                /\ FetchLocalsFresh'
          /\ pc = "failed" =>
                UNCHANGED <<pc, urls, fw, scrapeCalls, resultsChan, wg>>
    ]_vars

\* C30 witness: the file "#\n u" (a comment line, then a URL after a space)
\* gave the one-entry list "u", and the fetch of that entry is in flight.
IndentedURLParsed ==
    /\ optURLFile = [path |-> "f", content |-> <<35, 10, 32, 117>>]
    /\ urls = <<<<117>>>>
    /\ fw = <<"calling">>

CutsAfterBreakOrAtMaxChars ==
    segPc = "returned" =>
        LET runes == DecodeString(segText)
            segs == segResult.segments
            off(k) == RuneCount(ConcatAll(SubSeq(segs, 1, k - 1)))
        IN \A k \in 1..Len(segs) :
              LET o == off(k)
                  remaining == Len(runes) - o
                  seps == {i \in 0..(segMaxChars - 2) :
                              runes[o + i + 1] = 10 /\ runes[o + i + 2] = 10}
              IN RuneCount(segs[k]) =
                    IF remaining <= segMaxChars THEN remaining
                    ELSE IF seps # {} /\ SetMax(seps) > segMaxChars \div 2
                    THEN SetMax(seps) + 2
                    ELSE segMaxChars

\* C33: the segment list handed to ExecuteMap is made of one block per
\* fetched result, in the order of the results; the segments of a block all
\* carry the URL of their result and, joined in list order, give back its
\* content.
SegmentsKeepSourceOrder ==
    (pc \notin {"generate", "panicked"} /\ allSegments # <<>>) =>
        LET n == Len(successfulResults)
            m == Len(allSegments)
        IN \E b \in [0..n -> 0..m] :
              /\ b[0] = 0 /\ b[n] = m
              /\ \A i \in 1..n :
                    /\ b[i - 1] <= b[i]
                    /\ \A k \in (b[i - 1] + 1)..b[i] :
                          allSegments[k].URL = successfulResults[i].URL
                    /\ ConcatAll([k \in 1..(b[i] - b[i - 1]) |->
                                     allSegments[b[i - 1] + k].Text])
                          = successfulResults[i].Content

\* C33 witness: the text of u1 was cut in two and the two pieces are handed
\* to Map in their order in the text, before the piece of u2.
TwoSegmentsOfOneSourceInOrder ==
    /\ pc = "map"
    /\ Len(successfulResults) = 2
    /\ successfulResults[1].Content = LongText
    /\ Len(allSegments) = 3
    /\ allSegments[1] = [Text |-> <<97, 97, 97>>, URL |-> "u1"]
    /\ allSegments[2] = [Text |-> <<98>>, URL |-> "u1"]
    /\ allSegments[3].URL = "u2"

\* C34: in the parallel batch and in the Map stage the outcomes already
\* sent on the fan-in channel, together with the workers that have yet to
\* send theirs, never outnumber the inputs, which is the capacity the
\* channel was made with: a worker that is about to send finds a free place.
FanInChannelNeverFull ==
    /\ pc = "scrape" =>
          /\ Len(resultsChan)
                + Cardinality({i \in DOMAIN fw :
                                  fw[i] \in {"idle", "spawned", "calling"}})
                <= Len(urls)
          /\ (\E i \in DOMAIN fw : fw[i] \in {"spawned", "calling"}) =>
                Len(resultsChan) < Len(urls)
    /\ pc = "map" =>
          /\ Len(mapResultsChan)
                + Cardinality({i \in DOMAIN mw :
                                  mw[i] \in {"idle", "waiting", "calling"}})
                <= Len(allSegments)
          /\ (\E i \in DOMAIN mw : mw[i] \in {"waiting", "calling"}) =>
                Len(mapResultsChan) < Len(allSegments)

\* C34 witness: in the Map stage every outcome but one is on the channel and
\* the last goroutine, whose call is in flight, has one place left.
LastMapOutcomeHasRoom ==
    /\ pc = "map" /\ Len(allSegments) >= 2
    /\ Len(mapResultsChan) = Len(allSegments) - 1
    /\ Cardinality({i \in DOMAIN mw : mw[i] = "calling"}) = 1
    /\ \A i \in DOMAIN fw : fw[i] = "exited"

\* C35: when ScrapeInParallel has returned no slot of its semaphore is
\* held, and when ExecuteMap has returned no slot of its semaphore is held.
PoolsReturnWithEverySlotReleased ==
    /\ (pc \notin {"urlgen", "scrape"} /\ DOMAIN fw # {}) => semaphore = 0
    /\ mapRet.done => sem = 0

\* C36: the call of the segmenter returns; every remainder of the text that
\* is longer than maxChars is cut at least one code point in; and no
\* returned segment is empty.
SegmenterReturnsNonEmptySegments ==
    segPc # "call" =>
        /\ segPc = "returned"
        /\ LET rs == DecodeString(segText) IN
           \A k \in 1..Len(rs) :
              LET current == SubSeq(rs, k, Len(rs)) IN
              Len(current) > segMaxChars =>
                  SplitIndex(current, segMaxChars) >= 1
        /\ \A i \in 1..Len(segResult.segments) : segResult.segments[i] # <<>>

\* C37: the retry loop of processFailedURLs calls the extractor for its
\* next failed URL only while the context is not done.
NoRetryCallAfterCancellation ==
    [][(pc = "retry" /\ retryIdx' = retryIdx + 1) => ~ctxDone]_vars

\* C38: the results Fetch hands to the pipeline are at least one, and each
\* has no error and a non-empty content, whether it comes from the parallel
\* batch or from the retry pass; the segment list CleanAndStructureText
\* makes of them for ExecuteMap has at least one segment and no empty one.
FetchedResultsAreUsable ==
    LET handed == \/ pc \in {"generate", "panicked", "map", "reduce",
                             "reducing", "output", "done"}
                  \/ (pc = "failed" /\ runErr.phase = PhaseCleanUp)
        segmented == handed /\ pc \notin {"generate", "panicked"}
    IN /\ handed =>
             /\ Len(successfulResults) >= 1
             /\ \A i \in DOMAIN successfulResults :
                   /\ successfulResults[i].Error = "none"
                   /\ successfulResults[i].Content # <<>>
       /\ segmented =>
             /\ Len(allSegments) >= 1
             /\ \A k \in DOMAIN allSegments : allSegments[k].Text # <<>>

\* C38 witness: Fetch returned one result of the parallel batch and one of
\* the retry pass, and their segments have been handed to ExecuteMap.
InitialAndRetriedResultsSegmented ==
    /\ pc = "map"
    /\ fetchLog.logged
    /\ fetchLog.initial_successful = 1 /\ fetchLog.retry_successful = 1
    /\ Len(successfulResults) = 2
    /\ Len(allSegments) >= 2

\* C39 (as stated): every worker of either pool sends one outcome before it
\* is counted as done, nothing is sent after the close, and the number of
\* outcomes collected from the channel is the number of inputs, in
\* ScrapeInParallel and in ExecuteMap.
EveryOutcomeCollected ==
    /\ pc = "scrape" =>
          /\ Len(resultsChan) =
                Cardinality({i \in DOMAIN fw :
                                fw[i] \in {"reported", "released", "exited"}})
          /\ wg = Cardinality({i \in DOMAIN fw :
                                  fw[i] \in {"spawned", "calling", "reported",
                                             "released"}})
    /\ pc \in {"delay1", "delay2", "retry"} =>
          /\ \A i \in DOMAIN fw : fw[i] = "exited"
          /\ resultsChan = <<>>
    /\ (pc = "map" /\ ~mapRet.done) =>
          /\ Len(mapResultsChan) =
                Cardinality({i \in DOMAIN mw :
                                mw[i] \in {"reported", "wgdone", "exited"}})
          /\ mapWg = Cardinality({i \in DOMAIN mw :
                                     mw[i] \in {"waiting", "calling",
                                                "reported"}})
    /\ mapRet.done =>
          /\ \A i \in DOMAIN mw : mw[i] \in {"wgdone", "exited"}
          /\ Len(mapResultsChan) = Len(allSegments)
    /\ pc \in {"delay1", "delay2", "retry"} => Len(results) = Len(urls)
    /\ mapRet.done => ScannedOutcomes(mapResultsChan) = Len(allSegments)

\* C39 (amended): every worker of either pool sends one outcome before it
\* is counted as done and nothing is sent after the close; ScrapeInParallel
\* collects as many outcomes as it has inputs; ExecuteMap collects as many
\* outcomes as it has inputs when none is an error, and stops at the first
\* error otherwise.
EveryOutcomeSentOnceAndScanned ==
    /\ pc = "scrape" =>
          /\ Len(resultsChan) =
                Cardinality({i \in DOMAIN fw :
                                fw[i] \in {"reported", "released", "exited"}})
          /\ wg = Cardinality({i \in DOMAIN fw :
                                  fw[i] \in {"spawned", "calling", "reported",
                                             "released"}})
    /\ pc \in {"delay1", "delay2", "retry"} =>
          /\ \A i \in DOMAIN fw : fw[i] = "exited"
          /\ resultsChan = <<>>
    /\ (pc = "map" /\ ~mapRet.done) =>
          /\ Len(mapResultsChan) =
                Cardinality({i \in DOMAIN mw :
                                mw[i] \in {"reported", "wgdone", "exited"}})
          /\ mapWg = Cardinality({i \in DOMAIN mw :
                                     mw[i] \in {"waiting", "calling",
                                                "reported"}})
    /\ mapRet.done =>
          /\ \A i \in DOMAIN mw : mw[i] \in {"wgdone", "exited"}
          /\ Len(mapResultsChan) = Len(allSegments)
    /\ pc \in {"delay1", "delay2", "retry"} => Len(results) = Len(urls)
    /\ mapRet.done =>
          /\ mapRet.err = "none" =>
                /\ ScannedOutcomes(mapResultsChan) = Len(allSegments)
                /\ Len(mapRet.summaries) = Len(allSegments)
          /\ mapRet.err # "none" =>
                /\ ScannedOutcomes(mapResultsChan) <= Len(allSegments)
                /\ mapResultsChan[ScannedOutcomes(mapResultsChan)].Err
                      = mapRet.err
                /\ \A k \in 1..(ScannedOutcomes(mapResultsChan) - 1) :
                      mapResultsChan[k].Err = "none"

\* C39 witness: ExecuteMap returned the error of its first outcome and left
\* the outcome of the other segment on the closed channel.
MapScanStoppedAtFirstError ==
    /\ mapRet.done /\ mapRet.err # "none"
    /\ Len(allSegments) = 2 /\ Len(mapResultsChan) = 2
    /\ ScannedOutcomes(mapResultsChan) = 1
    /\ Len(urls) = 2
====
